---- MODULE Spec2Model ----
(***************************************************************************)
(* Model of the Leadgenpro record store (core/database.py), the enrichment *)
(* workflows (core/enrichment.py) and the smart-list builder               *)
(* (core/categorization.py).                                               *)
(*                                                                         *)
(* Text values are sequences of one-character strings, so that trimming    *)
(* and case folding are computed character by character, as SQLite's       *)
(* LOWER(TRIM(x)) and Python's str.strip().lower() compute them.  SQL NULL *)
(* and Python None are the one-element sequence NULL.                      *)
(***************************************************************************)
EXTENDS Integers, Sequences, FiniteSets, TLC

VARIABLES
    leads,        \* the rows of table leads
    smart_lists,  \* the rows of table smart_lists
    pre,          \* the rows of table leads when the last operation began
    last,         \* the last completed operation: its name, arguments, result
    run,          \* the enrichment / smart-list batch in progress, if any
    hist,         \* what the batches that have returned did (history, not
                  \* program state)
    enriched,     \* the rows of table enriched
    advanced_lead_reports   \* the rows of table advanced_lead_reports

\* The two tables of records derived from leads.
derived == <<enriched, advanced_lead_reports>>

vars == <<leads, smart_lists, pre, last, run, hist, derived>>

-----------------------------------------------------------------------------
(* Text.                                                                   *)

NULL == <<"NULL">>
Tab == "\t"

\* Python: bool(x) for None and str.
Truthy(x) == x # NULL /\ x # <<>>

\* Python str.strip() removes every leading and trailing whitespace character.
PyWhitespace == {" ", Tab}
\* SQLite TRIM(X) removes spaces only.
SqlTrimChars == {" "}

RECURSIVE LStrip(_, _)
LStrip(s, ws) ==
    IF s = <<>> THEN s
    ELSE IF Head(s) \in ws THEN LStrip(Tail(s), ws) ELSE s

RECURSIVE RStrip(_, _)
RStrip(s, ws) ==
    IF s = <<>> THEN s
    ELSE IF s[Len(s)] \in ws THEN RStrip(SubSeq(s, 1, Len(s) - 1), ws) ELSE s

\* SQLite LOWER(X) folds the ASCII letters only.
SqlLowerChar(c) ==
    CASE c = "A" -> "a"
      [] c = "B" -> "b"
      [] c = "D" -> "d"
      [] c = "E" -> "e"
      [] OTHER -> c

\* Python str.lower() folds every cased character.
PyLowerChar(c) == IF c = "É" THEN "é" ELSE SqlLowerChar(c)

SqlLower(s) == [i \in 1..Len(s) |-> SqlLowerChar(s[i])]
PyLower(s) == [i \in 1..Len(s) |-> PyLowerChar(s[i])]

\* str(x).strip().lower() of upsert_leads; str(None) is "None".
PyNoneText == <<"N", "o", "n", "e">>
PyStr(x) == IF x = NULL THEN PyNoneText ELSE x
PyNorm(x) == PyLower(RStrip(LStrip(PyStr(x), PyWhitespace), PyWhitespace))

\* LOWER(TRIM(x)) of the SQL statements; NULL stays NULL.
SqlNorm(x) ==
    IF x = NULL THEN NULL
    ELSE SqlLower(RStrip(LStrip(x, SqlTrimChars), SqlTrimChars))

-----------------------------------------------------------------------------
(* Table leads.                                                            *)

LeadColumns ==
    {"id", "ts", "record_type", "source", "name", "title", "linkedin",
     "website", "phone", "email", "domain", "lat", "lng", "address",
     "business_type"}

\* domain IS NOT NULL AND domain != ''
HasDomain(r) == r.domain # NULL /\ r.domain # <<>>
\* name IS NOT NULL AND name != ''
HasName(r) == r.name # NULL /\ r.name # <<>>

Ids(rows) == {r.id : r \in rows}
MaxOf(S) == CHOOSE m \in S : \A x \in S : x <= m
MinOf(S) == CHOOSE m \in S : \A x \in S : m <= x

\* INTEGER PRIMARY KEY: the next rowid is one more than the largest in use.
NewId(rows) == IF rows = {} THEN 1 ELSE MaxOf(Ids(rows)) + 1

\* UNIQUE(name, domain): NULLs never collide; comparison is exact (BINARY).
UniqueConflict(rows, r) ==
    \E o \in rows :
        /\ o.id # r.id
        /\ r.name # NULL /\ r.domain # NULL
        /\ o.name = r.name /\ o.domain = r.domain

\* name TEXT NOT NULL and UNIQUE(name, domain) on a row to be written.
IntegrityError(rows, r) == r.name = NULL \/ UniqueConflict(rows, r)

\* dt.datetime.now(...).isoformat(): the creation timestamp, one opaque text.
Now == <<"t">>

\* A hit is a dict; an absent key reads as None through h.get.
HitRow(h, id) ==
    [id |-> id, ts |-> Now, record_type |-> NULL, source |-> NULL,
     name |-> h.name, title |-> NULL, linkedin |-> NULL,
     website |-> h.website, phone |-> h.phone, email |-> h.email,
     domain |-> h.domain, lat |-> NULL, lng |-> NULL,
     address |-> h.address, business_type |-> NULL]

-----------------------------------------------------------------------------
(* upsert_leads.                                                           *)

\* SELECT LOWER(TRIM(name)), LOWER(TRIM(domain)) ... WHERE domain IS NOT NULL
\* AND domain != ''
ExistingWithDomain(rows) ==
    {<<SqlNorm(r.name), SqlNorm(r.domain)>> : r \in {x \in rows : HasDomain(x)}}

\* SELECT LOWER(TRIM(name)) ... WHERE domain IS NULL OR domain = ''
ExistingWithoutDomain(rows) ==
    {SqlNorm(r.name) : r \in {x \in rows : ~HasDomain(x)}}

HitNameKey(h) == PyNorm(h.name)
HitDomainKey(h) == IF Truthy(h.domain) THEN PyNorm(h.domain) ELSE NULL

IsDuplicate(name, domain, withDomain, withoutDomain) ==
    \/ Truthy(domain) /\ <<name, domain>> \in withDomain
    \/ ~Truthy(domain) /\ name \in withoutDomain

\* One iteration of "for h in hits" on the loop state
\* [rows, withDomain, withoutDomain, inserted, skipped].
UpsertOne(st, h) ==
    LET name == HitNameKey(h)
        domain == HitDomainKey(h)
        row == HitRow(h, NewId(st.rows))
    IN  IF ~Truthy(name) THEN [st EXCEPT !.skipped = @ + 1]
        ELSE IF IsDuplicate(name, domain, st.withDomain, st.withoutDomain)
        THEN [st EXCEPT !.skipped = @ + 1]
        ELSE IF IntegrityError(st.rows, row)
        THEN [st EXCEPT !.skipped = @ + 1]
        ELSE [rows |-> st.rows \cup {row},
              withDomain |->
                  IF Truthy(domain) THEN st.withDomain \cup {<<name, domain>>}
                  ELSE st.withDomain,
              withoutDomain |->
                  IF Truthy(domain) THEN st.withoutDomain
                  ELSE st.withoutDomain \cup {name},
              inserted |-> st.inserted + 1,
              skipped |-> st.skipped]

RECURSIVE UpsertLoop(_, _)
UpsertLoop(st, hits) ==
    IF hits = <<>> THEN st
    ELSE UpsertLoop(UpsertOne(st, Head(hits)), Tail(hits))

\* upsert_leads(db_file, hits): the rows afterwards and (inserted, skipped).
upsert_leads(rows, hits) ==
    IF hits = <<>> THEN [rows |-> rows, inserted |-> 0, skipped |-> 0]
    ELSE LET st == UpsertLoop([rows |-> rows,
                               withDomain |-> ExistingWithDomain(rows),
                               withoutDomain |-> ExistingWithoutDomain(rows),
                               inserted |-> 0, skipped |-> 0], hits)
         IN  [rows |-> st.rows, inserted |-> st.inserted, skipped |-> st.skipped]

-----------------------------------------------------------------------------
(* remove_db_duplicates.                                                   *)

\* Mutant: the first subquery grouped by name alone.
DomainGroupMinIds_ByNameOnly(rows) ==
    LET S == {r \in rows : HasDomain(r) /\ HasName(r)}
    IN  {MinOf({o.id : o \in {x \in S : SqlNorm(x.name) = SqlNorm(r.name)}})
         : r \in S}

\* SELECT MIN(id) ... WHERE domain non-empty AND name non-empty
\* GROUP BY LOWER(TRIM(name)), LOWER(TRIM(domain))
DomainGroupMinIds(rows) ==
    LET S == {r \in rows : HasDomain(r) /\ HasName(r)}
    IN  {MinOf({o.id : o \in {x \in S : /\ SqlNorm(x.name) = SqlNorm(r.name)
                                        /\ SqlNorm(x.domain) = SqlNorm(r.domain)}})
         : r \in S}

DeleteDomainDupes(rows) ==
    {r \in rows : ~(r.id \notin DomainGroupMinIds(rows) /\ HasDomain(r) /\ HasName(r))}

\* Mutant: the second subquery grouped by the raw name.
NullDomainGroupMinIds_RawName(rows) ==
    LET S == {r \in rows : ~HasDomain(r) /\ HasName(r)}
    IN  {MinOf({o.id : o \in {x \in S : x.name = r.name}}) : r \in S}

\* SELECT MIN(id) ... WHERE (domain IS NULL OR domain = '') AND name non-empty
\* GROUP BY LOWER(TRIM(name))
NullDomainGroupMinIds(rows) ==
    LET S == {r \in rows : ~HasDomain(r) /\ HasName(r)}
    IN  {MinOf({o.id : o \in {x \in S : SqlNorm(x.name) = SqlNorm(r.name)}})
         : r \in S}

DeleteNullDomainDupes(rows) ==
    {r \in rows :
        ~(r.id \notin NullDomainGroupMinIds(rows) /\ ~HasDomain(r) /\ HasName(r))}

\* cursor.rowcount of a DELETE: the number of rows it removed.
RowCount(before, after) == Cardinality(before \ after)

\* remove_db_duplicates(db_file): the rows afterwards and total_removed.
remove_db_duplicates(rows) ==
    LET afterFirst == DeleteDomainDupes(rows)
        afterSecond == DeleteNullDomainDupes(afterFirst)
    IN  [rows |-> afterSecond,
         total_removed |-> RowCount(rows, afterFirst) + RowCount(afterFirst, afterSecond)]

-----------------------------------------------------------------------------
(* update_lead_in_db.                                                      *)

\* Mutant: the allow-list with the creation timestamp let in.
allowed_cols_WithTs ==
    {"name", "title", "linkedin", "website", "phone", "email", "domain",
     "address", "record_type", "source", "business_type", "ts"}

allowed_cols ==
    {"name", "title", "linkedin", "website", "phone", "email", "domain",
     "address", "record_type", "source", "business_type"}

\* update_lead_in_db(db_file, lead_id, column, new_value): the rows
\* afterwards and the boolean returned.
update_lead_in_db(rows, lead_id, column, new_value) ==
    IF column \notin allowed_cols THEN [rows |-> rows, ret |-> FALSE]
    ELSE IF lead_id \notin Ids(rows) THEN [rows |-> rows, ret |-> FALSE]
    ELSE LET old == CHOOSE r \in rows : r.id = lead_id
             new == [old EXCEPT ![column] = new_value]
         IN  IF IntegrityError(rows, new) THEN [rows |-> rows, ret |-> FALSE]
             ELSE [rows |-> (rows \ {old}) \cup {new}, ret |-> TRUE]

-----------------------------------------------------------------------------
(* get_lead_by_id, get_leads_for_enrichment.                               *)

\* get_lead_by_id(db_file, lead_id): the row, or None.
get_lead_by_id(rows, lead_id) ==
    IF lead_id \in Ids(rows) THEN CHOOSE r \in rows : r.id = lead_id ELSE NULL

\* column IS NULL OR column = ''
IsBlank(v) == v = NULL \/ v = <<>>

\* Mutant: the WHERE clause joined with AND.
NeedsEnrichment_AllBlank(r) ==
    IsBlank(r.website) /\ IsBlank(r.phone) /\ IsBlank(r.email) /\ IsBlank(r.address)

NeedsEnrichment(r) ==
    IsBlank(r.website) \/ IsBlank(r.phone) \/ IsBlank(r.email) \/ IsBlank(r.address)

\* ORDER BY id DESC: the ids of S, largest first.
RECURSIVE IdsDescending(_)
IdsDescending(S) ==
    IF S = {} THEN <<>>
    ELSE LET m == MaxOf(S) IN <<m>> \o IdsDescending(S \ {m})

\* LIMIT n: a negative n is no limit.
Limit(seq, n) ==
    IF n < 0 \/ n >= Len(seq) THEN seq ELSE SubSeq(seq, 1, n)

\* get_leads_for_enrichment(db_file, limit): the ids of the frame's rows, in order.
get_leads_for_enrichment(rows, limit) ==
    Limit(IdsDescending({r.id : r \in {x \in rows : NeedsEnrichment(x)}}), limit)

-----------------------------------------------------------------------------
(* Bounds and input universes.                                             *)

MaxLeadId == 2     \* the largest rowid Spec lets the store assign
MaxBatch == 2      \* hits in one upsert_leads call

HitNames == {<<"A">>, <<"a", " ">>, <<"a", Tab>>, <<"É">>, <<>>}
HitDomains == {NULL, <<"d">>, <<"D">>}

Hit(name, domain) ==
    [name |-> name, domain |-> domain, website |-> NULL, phone |-> NULL,
     email |-> NULL, address |-> NULL]

StoreHits == {Hit(n, d) : n \in HitNames, d \in HitDomains}

Batches(H) == UNION {[1..n -> H] : n \in 0..MaxBatch}

UpdateColumns == {"name", "domain", "ts"}
UpdateValues(column) ==
    CASE column = "name" -> {<<"A">>, NULL}
      [] column = "domain" -> {<<"d">>, NULL}
      [] OTHER -> {<<"x">>}

NoRun == [wf |-> "none"]
NoHist == [runs |-> 0, filled |-> {}, evaluated |-> {}]

-----------------------------------------------------------------------------
(* The record store driven by its callers, from an empty database.         *)

Init ==
    /\ leads = {}
    /\ smart_lists = {}
    /\ pre = {}
    /\ last = [op |-> "init"]
    /\ run = NoRun
    /\ hist = NoHist
    /\ enriched = {}
    /\ advanced_lead_reports = {}

UpsertLeads ==
    \E hits \in Batches(StoreHits) :
        /\ NewId(leads) + Len(hits) - 1 <= MaxLeadId
        /\ LET res == upsert_leads(leads, hits)
           IN  /\ leads' = res.rows
               /\ last' = [op |-> "upsert_leads", hits |-> hits,
                           inserted |-> res.inserted, skipped |-> res.skipped]
        /\ pre' = leads
        /\ UNCHANGED <<smart_lists, run, hist, derived>>

UpdateLead ==
    \E lead_id \in 1..MaxLeadId, column \in UpdateColumns :
        \E value \in UpdateValues(column) :
            /\ LET res == update_lead_in_db(leads, lead_id, column, value)
               IN  /\ leads' = res.rows
                   /\ last' = [op |-> "update_lead_in_db", lead_id |-> lead_id,
                               column |-> column, value |-> value, ret |-> res.ret]
            /\ pre' = leads
            /\ UNCHANGED <<smart_lists, run, hist, derived>>

RemoveDuplicates ==
    /\ LET res == remove_db_duplicates(leads)
       IN  /\ leads' = res.rows
           /\ last' = [op |-> "remove_db_duplicates", ret |-> res.total_removed]
    /\ pre' = leads
    /\ UNCHANGED <<smart_lists, run, hist, derived>>

Next == UpsertLeads \/ UpdateLead \/ RemoveDuplicates

Spec == Init /\ [][Next]_vars

-----------------------------------------------------------------------------
(* Single store operations applied to stores drawn from a bounded set.     *)
(* Every drawn store satisfies the table's constraints, so the program     *)
(* can hold it: rows enter through upsert_leads and are rewritten by       *)
(* update_lead_in_db.                                                      *)

MaxSweepLeads == 4    \* rows of a store handed to remove_db_duplicates
MaxUpdateLeads == 2   \* rows of a store handed to update_lead_in_db
MaxQueryLeads == 3    \* rows of a store handed to get_leads_for_enrichment
MaxLimit == 3         \* the largest limit asked of get_leads_for_enrichment

\* The stores of rows 1..k, k <= n, whose rows are built from Kinds.
StoresOf(Kinds, n) ==
    LET build(f) == {HitRow(f[i], i) : i \in DOMAIN f}
    IN  {S \in {build(f) : f \in UNION {[1..k -> Kinds] : k \in 0..n}} :
            \A r \in S : ~IntegrityError(S, r)}

SweepKinds ==
    {Hit(<<"A">>, NULL), Hit(<<"a", " ">>, <<>>), Hit(<<"A">>, <<"d">>),
     Hit(<<"a", " ">>, <<"D", " ">>), Hit(<<"A">>, <<"e">>),
     Hit(<<"a", Tab>>, NULL), Hit(<<>>, NULL), Hit(<<>>, <<"d">>)}

InitSweep ==
    /\ leads \in StoresOf(SweepKinds, MaxSweepLeads)
    /\ smart_lists = {}
    /\ pre = {}
    /\ last = [op |-> "init"]
    /\ run = NoRun
    /\ hist = NoHist
    /\ enriched = {}
    /\ advanced_lead_reports = {}

SpecSweep == InitSweep /\ [][RemoveDuplicates]_vars

UpdateKinds ==
    {Hit(<<"A">>, NULL), Hit(<<"A">>, <<"d">>), Hit(<<"b">>, <<"d">>),
     [Hit(<<"b">>, NULL) EXCEPT !.phone = <<"p">>]}

AnyColumns == LeadColumns \cup {"rowid", "name = 'x', ts"}
AnyValues == {NULL, <<>>, <<"A">>, <<"d">>, <<"p">>}

InitUpdate ==
    /\ leads \in StoresOf(UpdateKinds, MaxUpdateLeads)
    /\ smart_lists = {}
    /\ pre = {}
    /\ last = [op |-> "init"]
    /\ run = NoRun
    /\ hist = NoHist
    /\ enriched = {}
    /\ advanced_lead_reports = {}

\* One call of update_lead_in_db on the drawn store.
UpdateAnyColumn ==
    /\ last.op = "init"
    /\ \E lead_id \in 1..(MaxUpdateLeads + 1), column \in AnyColumns,
          value \in AnyValues :
            /\ LET res == update_lead_in_db(leads, lead_id, column, value)
               IN  /\ leads' = res.rows
                   /\ last' = [op |-> "update_lead_in_db", lead_id |-> lead_id,
                               column |-> column, value |-> value, ret |-> res.ret]
            /\ pre' = leads
            /\ UNCHANGED <<smart_lists, run, hist, derived>>

SpecUpdate == InitUpdate /\ [][UpdateAnyColumn]_vars

Contact(website, phone, email, address) ==
    [name |-> <<"n">>, domain |-> NULL, website |-> website, phone |-> phone,
     email |-> email, address |-> address]

\* A lead of the same name with nothing but a domain.
WithDomain(domain) == [Contact(NULL, NULL, NULL, NULL) EXCEPT !.domain = domain]

QueryKinds ==
    {Contact(<<"w">>, <<"p">>, <<"m">>, <<"s">>),
     Contact(NULL, <<"p">>, <<"m">>, <<"s">>),
     Contact(<<>>, <<"p">>, <<"m">>, <<"s">>),
     Contact(<<"w">>, <<>>, <<"m">>, <<"s">>),
     Contact(<<"w">>, <<"p">>, NULL, <<"s">>),
     Contact(<<" ">>, NULL, <<"m">>, NULL)}

InitQuery ==
    /\ leads \in StoresOf(QueryKinds, MaxQueryLeads)
    /\ smart_lists = {}
    /\ pre = {}
    /\ last = [op |-> "init"]
    /\ run = NoRun
    /\ hist = NoHist
    /\ enriched = {}
    /\ advanced_lead_reports = {}

GetLeadsForEnrichment ==
    \E limit \in 0..MaxLimit :
        /\ last' = [op |-> "get_leads_for_enrichment", limit |-> limit,
                    ret |-> get_leads_for_enrichment(leads, limit)]
        /\ pre' = leads
        /\ UNCHANGED <<leads, smart_lists, run, hist, derived>>

SpecQuery == InitQuery /\ [][GetLeadsForEnrichment]_vars

-----------------------------------------------------------------------------
(* The lead identity invariant of the data model.  Its normalization is    *)
(* the store's own LOWER(TRIM(x)); two values that agree under it agree    *)
(* under every stronger trim and case fold as well.                        *)

SameIdentity(r1, r2) ==
    /\ SqlNorm(r1.name) = SqlNorm(r2.name)
    /\ \/ HasDomain(r1) /\ HasDomain(r2) /\ SqlNorm(r1.domain) = SqlNorm(r2.domain)
       \/ ~HasDomain(r1) /\ ~HasDomain(r2)

LeadIdentity(rows) ==
    \A r1 \in rows : \A r2 \in rows : r1.id # r2.id => ~SameIdentity(r1, r2)

\* The rows that match candidate h on normalized name and domain.
MatchingRows(rows, h) == {r \in rows : SameIdentity(r, HitRow(h, 0))}

\* C1 (as claimed): two calls of upsert_leads in a row with the same one
\* candidate of non-empty name leave exactly one row matching it; the
\* second call inserts nothing and reports the candidate as skipped.
C1_IdempotentInsert ==
    [][(/\ last.op = "upsert_leads" /\ last'.op = "upsert_leads"
        /\ Len(last.hits) = 1 /\ last'.hits = last.hits
        /\ Truthy(last.hits[1].name))
       => (/\ last'.inserted = 0 /\ last'.skipped = 1
           /\ Cardinality(MatchingRows(leads', last.hits[1])) = 1)]_vars

\* C2 (as claimed): upsert_leads on a store that satisfies the lead
\* identity invariant leaves a store that satisfies it.
C2_UpsertPreservesIdentity ==
    (last.op = "upsert_leads" /\ LeadIdentity(pre)) => LeadIdentity(leads)

\* C3 (as claimed): the lead identity invariant holds in every state
\* reached from the empty store by upsert_leads, update_lead_in_db and
\* remove_db_duplicates.
C3_IdentityAlways == LeadIdentity(leads)

-----------------------------------------------------------------------------
(* remove_db_duplicates, as the record store contract states it.           *)

DomainKeyed(r) == HasName(r) /\ HasDomain(r)
NameKeyed(r) == HasName(r) /\ ~HasDomain(r)

\* Each group sharing normalized (name, domain), domain non-empty, reduced
\* to its lowest id.
CollapseDomainKeyed(rows) ==
    {r \in rows :
        DomainKeyed(r) =>
            \A o \in rows :
                (/\ DomainKeyed(o)
                 /\ SqlNorm(o.name) = SqlNorm(r.name)
                 /\ SqlNorm(o.domain) = SqlNorm(r.domain)) => r.id <= o.id}

\* Each group sharing normalized name, domain empty, reduced to its lowest id.
CollapseNameKeyed(rows) ==
    {r \in rows :
        NameKeyed(r) =>
            \A o \in rows :
                (NameKeyed(o) /\ SqlNorm(o.name) = SqlNorm(r.name)) => r.id <= o.id}

C5_NoDomainCollision ==
    last.op = "remove_db_duplicates" =>
        /\ \A r1 \in pre : \A r2 \in pre :
              (/\ r1.id < r2.id /\ HasName(r1)
               /\ SqlNorm(r1.name) = SqlNorm(r2.name)
               /\ ~HasDomain(r1) /\ ~HasDomain(r2)) => r2 \notin leads
        /\ \A r \in pre :
              (HasName(r) /\ ~HasDomain(r)) =>
                  \E k \in leads : ~HasDomain(k) /\ SqlNorm(k.name) = SqlNorm(r.name)
        /\ \A r \in pre \ leads :
              \E k \in leads : k.id < r.id /\ SameIdentity(k, r)

\* A sweep over two same-named leads with no domain, in a store that also
\* holds that name under two different domains: the pair collapsed, the
\* other two are both kept.
C5_Witness ==
    /\ last.op = "remove_db_duplicates"
    /\ \E r1 \in leads : \E r2 \in pre \ leads :
          /\ r1.name = r2.name /\ ~HasDomain(r1) /\ ~HasDomain(r2)
          /\ \E r3 \in leads : \E r4 \in leads :
                /\ HasDomain(r3) /\ HasDomain(r4)
                /\ SqlNorm(r3.name) = SqlNorm(r1.name)
                /\ SqlNorm(r4.name) = SqlNorm(r1.name)
                /\ SqlNorm(r3.domain) # SqlNorm(r4.domain)

-----------------------------------------------------------------------------
(* update_lead_in_db and get_leads_for_enrichment, as the contract states  *)
(* them.                                                                   *)

RowOf(rows, id) == CHOOSE r \in rows : r.id = id

\* C6: update_lead_in_db returns False and changes nothing for a column
\* outside the allow-list (id, ts, lat, lng among them); for an allowed
\* column it changes at most that column of the lead with the given id,
\* returns True exactly when that lead's row was written, and returns False
\* when no lead has the id or the write breaks a constraint of the table.
C6_UpdateAllowList ==
    last.op = "update_lead_in_db" =>
        /\ last.column \in (AnyColumns \ allowed_cols) \cup {"id", "ts", "lat", "lng"}
              => (~last.ret /\ leads = pre)
        /\ Ids(leads) = Ids(pre)
        /\ \A r \in pre : r.id # last.lead_id => r \in leads
        /\ last.lead_id \in Ids(pre) =>
              \A c \in LeadColumns \ {last.column} :
                  RowOf(leads, last.lead_id)[c] = RowOf(pre, last.lead_id)[c]
        /\ last.ret =>
              /\ last.lead_id \in Ids(pre)
              /\ RowOf(leads, last.lead_id)[last.column] = last.value
        /\ ~last.ret => leads = pre
        /\ (~last.ret /\ last.column \in allowed_cols /\ last.lead_id \in Ids(pre))
              => IntegrityError(pre, [RowOf(pre, last.lead_id)
                                        EXCEPT ![last.column] = last.value])

\* A refused write to the creation timestamp of an existing lead.
C6_Witness ==
    /\ last.op = "update_lead_in_db"
    /\ last.column = "ts"
    /\ last.lead_id \in Ids(pre)
    /\ last.value # RowOf(pre, last.lead_id).ts
    /\ ~last.ret

\* C7: get_leads_for_enrichment(limit) returns, newest first, the `limit`
\* newest leads that miss at least one of website, phone, email, address,
\* and never a lead that has all four.
C7_LeadsForEnrichment ==
    last.op = "get_leads_for_enrichment" =>
        LET missing ==
                {r.id : r \in {x \in leads :
                    \E c \in {"website", "phone", "email", "address"} :
                        x[c] = NULL \/ x[c] = <<>>}}
            ret == last.ret
            got == {ret[i] : i \in DOMAIN ret}
        IN  /\ got \subseteq missing
            /\ \A i \in DOMAIN ret : \A j \in DOMAIN ret : i < j => ret[i] > ret[j]
            /\ Len(ret) = IF Cardinality(missing) < last.limit
                          THEN Cardinality(missing) ELSE last.limit
            /\ \A m \in missing \ got : \A g \in got : m < g

\* A truncated answer that skips a fully populated lead newer than a
\* returned one.
C7_Witness ==
    /\ last.op = "get_leads_for_enrichment"
    /\ last.limit = 1 /\ Len(last.ret) = 1
    /\ \E r \in leads : r.id > last.ret[1] /\ ~NeedsEnrichment(r)
    /\ \E r \in leads : r.id < last.ret[1] /\ NeedsEnrichment(r)

-----------------------------------------------------------------------------
(* Python values, as json.loads and the language model hand them back.     *)

PyNone == [t |-> "None"]
PyBool(b) == [t |-> "bool", v |-> b]
PyText(s) == [t |-> "str", v |-> s]
PyInt(n) == [t |-> "int", v |-> n]
PyList(n) == [t |-> "list", len |-> n]
PyDict(f) == [t |-> "dict", v |-> f]

\* bool(x)
PyTruthy(x) ==
    CASE x.t = "None" -> FALSE
      [] x.t = "bool" -> x.v
      [] x.t = "str" -> x.v # <<>>
      [] x.t = "int" -> x.v # 0
      [] x.t = "list" -> x.len # 0
      [] x.t = "dict" -> DOMAIN x.v # {}

\* x is True
IsTrue(x) == x.t = "bool" /\ x.v

\* isinstance(x, dict)
IsDict(x) == x.t = "dict"

\* d.get(k)
DictGet(d, k) == IF k \in DOMAIN d.v THEN d.v[k] ELSE PyNone

\* The value sqlite3 stores for a Python str or None.
DbValue(x) == IF x.t = "None" THEN NULL ELSE x.v

-----------------------------------------------------------------------------
(* call_ollama_model.  A reply is what the Ollama server did with one      *)
(* POST: the request failed, the body was not JSON, the body was JSON but  *)
(* not an object with a "response" text, or the body was a JSON object     *)
(* whose "response" text is `text`; `parsed` is the value that text        *)
(* denotes as JSON, NoParse when it is not JSON.                           *)

NoParse == [t |-> "JSONDecodeError"]
HttpFailed == [http |-> "RequestException"]
HttpNotJson == [http |-> "body_not_json"]
HttpNotObject == [http |-> "body_not_object"]
HttpOk(text, parsed) == [http |-> "ok", text |-> text, parsed |-> parsed]

\* An exception that leaves the callee: AttributeError out of
\* call_ollama_model, a WebDriverException out of find_and_click_link.
PyRaised == [t |-> "raised"]
Raises(x) == x.t = "raised"

\* call_ollama_model(base_url, model_name, prompt, expect_json): the value
\* returned; response_data.get("response", "").strip() raises on a body
\* that is not an object, and only RequestException and JSONDecodeError are
\* caught.
call_ollama_model(reply, expect_json) ==
    IF reply.http = "RequestException" THEN PyNone
    ELSE IF reply.http = "body_not_json" THEN PyNone
    ELSE IF reply.http = "body_not_object" THEN PyRaised
    ELSE IF expect_json /\ reply.parsed # NoParse THEN reply.parsed
    ELSE PyText(reply.text)

Verdict(v) == PyDict([k \in {"is_correct_website"} |-> v])

\* Replies to the website validation prompt.
ValidationReplies ==
    {HttpFailed, HttpNotJson, HttpNotObject,
     HttpOk(<<"yes">>, NoParse),
     HttpOk(<<"true">>, PyBool(TRUE)),
     HttpOk(<<"{}">>, PyDict(<<>>)),
     HttpOk(<<"{i:true}">>, Verdict(PyBool(TRUE))),
     HttpOk(<<"{i:false}">>, Verdict(PyBool(FALSE))),
     HttpOk(<<"{i:'false'}">>, Verdict(PyText(<<"false">>))),
     HttpOk(<<"{i:null}">>, Verdict(PyNone))}

Extracted(phone, email, address) ==
    PyDict([k \in {"phone", "email", "address"} |->
              CASE k = "phone" -> phone [] k = "email" -> email
                [] k = "address" -> address])

\* Replies to the contact extraction prompt.
ContactReplies ==
    {HttpFailed, HttpNotObject,
     HttpOk(<<"none">>, NoParse),
     HttpOk(<<"{}">>, PyDict(<<>>)),
     HttpOk(<<"{p,m,s}">>,
            Extracted(PyText(<<"P">>), PyText(<<"M">>), PyText(<<"S">>))),
     HttpOk(<<"{p,,null}">>, Extracted(PyText(<<"P">>), PyText(<<>>), PyNone)),
     HttpOk(<<"{[p,p],null,null}">>, Extracted(PyList(2), PyNone, PyNone))}

-----------------------------------------------------------------------------
(* Search results and URLs.  A URL is a sequence of tokens: a scheme, host *)
(* labels, a path.                                                         *)

Schemes == {"https://", "http://"}
PathTokens == {"/", "/about"}

UrlA == <<"https://", "www.", "a.com", "/">>
UrlB == <<"http://", "b.com">>
UrlBare == <<"a.com", "/about">>

RECURSIVE TakeHost(_)
TakeHost(s) ==
    IF s = <<>> \/ Head(s) \in PathTokens THEN <<>>
    ELSE <<Head(s)>> \o TakeHost(Tail(s))

\* urlparse(url).netloc for a str: empty unless the URL has a scheme.
Netloc(url) ==
    IF url # <<>> /\ Head(url) \in Schemes THEN TakeHost(Tail(url)) ELSE <<>>

IsNotWww(t) == t # "www."

\* urlparse(url).netloc.replace("www.", ""); `raised` when url is None.
DomainOfUrl(url) ==
    IF url = NULL THEN [raised |-> TRUE]
    ELSE [raised |-> FALSE, domain |-> SelectSeq(Netloc(url), IsNotWww)]

\* An item of a result list; result.get('link') is its link, None if absent.
Result(link) == [link |-> link]

\* g_cse(...): the items of the answer, [] on a missing key or a failure.
GoogleItems ==
    {<<>>, <<Result(UrlA)>>, <<Result(NULL)>>, <<Result(UrlBare), Result(UrlA)>>}

\* The result blocks of a DuckDuckGo page; a block may lack its link.
ResultBlocks ==
    {<<>>, <<Result(UrlA), Result(UrlB)>>,
     <<Result(NULL), Result(UrlB), Result(NULL), Result(UrlA)>>}

\* if title and link and snippet
IsResult(b) == Truthy(b.link)

\* browser.search_and_scrape_results(query, num_results)
search_and_scrape_results(blocks, num_results) ==
    SelectSeq(Limit(blocks, num_results), IsResult)

-----------------------------------------------------------------------------
(* The four enrichment workflows of core/enrichment.py.                    *)

FillGoogle == "fill_missing_data_for_leads"
FindGoogle == "find_missing_websites_for_leads"
FindSelenium == "find_missing_websites_with_selenium"
FillSelenium == "find_and_fill_with_selenium"
Workflows == {FillGoogle, FindGoogle, FindSelenium, FillSelenium}

\* The workflow opens a BrowserAutomation session.
UsesBrowser(wf) == wf # FindGoogle
\* The workflow searches with g_cse and validates the top result only.
UsesGoogle(wf) == wf \in {FillGoogle, FindGoogle}
\* The workflow has a contact extraction step.
FillsContact(wf) == wf \in {FillGoogle, FillSelenium}
\* len(search_queries)
SearchQueries(wf) == IF UsesGoogle(wf) THEN 1 ELSE 2
\* num_results handed to search_and_scrape_results
num_results(wf) == IF wf = FindSelenium THEN 5 ELSE 3

\* Mutant: the website step entered whatever the lead holds.
WebsiteMissing_Always(lead_data) == TRUE

\* not lead_data.get('website')
WebsiteMissing(lead_data) == ~Truthy(lead_data.website)

\* The test on the validation response that lets the link be written.
Accepts(wf, validation) ==
    /\ IsDict(validation)
    /\ IF wf \in {FillGoogle, FillSelenium}
       THEN PyTruthy(DictGet(validation, "is_correct_website"))
       ELSE IsTrue(DictGet(validation, "is_correct_website"))

\* `if found_url:` between the accepted verdict and the writes.
ChecksLink(wf) == wf \in {FindGoogle, FindSelenium}

\* Mutant: the lead's source rewritten along with its website.
CommitWebsite_Sourced(rows, lead_id, url) ==
    LET r1 == update_lead_in_db(rows, lead_id, "website", url).rows
        d == DomainOfUrl(url)
        r2 == IF d.raised THEN r1
              ELSE update_lead_in_db(r1, lead_id, "domain", d.domain).rows
    IN  update_lead_in_db(r2, lead_id, "source", <<"w">>).rows

\* update website, then update domain unless the URL made urlparse raise.
CommitWebsite(rows, lead_id, url) ==
    LET r1 == update_lead_in_db(rows, lead_id, "website", url).rows
        d == DomainOfUrl(url)
    IN  IF d.raised THEN r1
        ELSE update_lead_in_db(r1, lead_id, "domain", d.domain).rows

\* One update_lead_in_db call as the workflow made it: the column and the
\* value returned (True when a row was matched and the change committed).
Call(column, ret) == [column |-> column, ret |-> ret]

\* The update_lead_in_db calls of CommitWebsite, in order.
CommitWebsiteCalls(rows, lead_id, url) ==
    LET u1 == update_lead_in_db(rows, lead_id, "website", url)
        d == DomainOfUrl(url)
    IN  IF d.raised THEN <<Call("website", u1.ret)>>
        ELSE <<Call("website", u1.ret),
               Call("domain",
                    update_lead_in_db(u1.rows, lead_id, "domain", d.domain).ret)>>

\* A Python value sqlite3 binds as a parameter: None and str here; a list
\* or a dict makes execute raise sqlite3.Error.
Bindable(x) == x.t \in {"None", "str"}

\* update_lead_in_db(db_file, lead_id, column, new_value) for a Python
\* value: the binding error is caught by `except sqlite3.Error`.
update_lead_value(rows, lead_id, column, new_value) ==
    IF Bindable(new_value)
    THEN update_lead_in_db(rows, lead_id, column, DbValue(new_value))
    ELSE [rows |-> rows, ret |-> FALSE]

ContactFields == <<"phone", "email", "address">>

\* Mutant: the extracted value written over whatever the lead holds.
ShouldWrite_Found(lead_data, field, value) == PyTruthy(value)

\* if not lead_data.get(field) and extracted_info.get(field)
ShouldWrite(lead_data, field, value) ==
    ~Truthy(lead_data[field]) /\ PyTruthy(value)

RECURSIVE FillFields(_, _, _, _, _)
\* for field in ["phone", "email", "address"]: write the extracted value
\* when the lead's field is empty and the value is truthy.
FillFields(st, lead_id, lead_data, extracted_info, k) ==
    IF k > Len(ContactFields) THEN st
    ELSE LET field == ContactFields[k]
             value == DictGet(extracted_info, field)
             u == update_lead_value(st.rows, lead_id, field, value)
         IN  IF ShouldWrite(lead_data, field, value)
             THEN FillFields(
                    [rows |-> u.rows, updated |-> TRUE,
                     calls |-> Append(st.calls, Call(field, u.ret))],
                    lead_id, lead_data, extracted_info, k + 1)
             ELSE FillFields(st, lead_id, lead_data, extracted_info, k + 1)

MaxEnrichLeads == 2   \* rows of the store the workflows run on
MaxRunLeads == 2      \* lead ids handed to one workflow call
MaxRuns == 2          \* workflow calls in one behaviour

NoCalls == [id \in 1..(MaxEnrichLeads + 1) |-> 0]

\* run_enrichment_action: the action names of the three workflows it
\* routes to, NoAction for a workflow called directly.
DeepAnalysis == "Deep Analysis Report"
SeleniumAction == "Find & Fill (Selenium - Free)"
GoogleAction == "Find & Fill (Google API - Paid)"
NoAction == "(called directly)"

\* A message string: its fixed text and the values formatted into it.
Message(text, args) == [t |-> "str", text |-> text, args |-> args]

SuccessText(action_name) ==
    CASE action_name = DeepAnalysis -> "Deep Analysis complete."
      [] action_name = SeleniumAction -> "Selenium Agent finished."
      [] action_name = GoogleAction -> "Google API Agent finished."

NoResult == <<>>

\* Mutant: no handler around the workflow call.
DispatchResult_Uncaught(action_name, raised, ret) ==
    IF action_name = NoAction THEN NoResult
    ELSE IF raised THEN <<PyNone, PyNone>>
    ELSE <<Message(SuccessText(action_name), ret), PyNone>>

\* What run_enrichment_action returns once the workflow it called has
\* returned ret or raised: (success_message, None), or (None, "A critical
\* error occurred: ...") from `except Exception`.
DispatchResult(action_name, raised, ret) ==
    IF action_name = NoAction THEN NoResult
    ELSE IF raised THEN <<PyNone, Message("A critical error occurred:", <<>>)>>
    ELSE <<Message(SuccessText(action_name), ret), PyNone>>
NoValidation == [t |-> "no validation"]

\* What the start of a batch found of the browser session: the automation
\* tools were imported and the driver was started, the import failed
\* (AUTOMATION_AVAILABLE is False), or _setup_driver left driver None.
SessionOk == "ok"
NoAutomation == "AUTOMATION_AVAILABLE is False"
NoDriver == "driver is None"

\* config.GCP_API_KEY and config.GCP_CX, as set or left empty in the
\* environment.
KeyedConfig == [api_key |-> <<"k">>, cx_id |-> <<"c">>]
GcpConfigs == {KeyedConfig, [api_key |-> <<>>, cx_id |-> <<"c">>]}

\* The api_log_file a caller hands to g_cse when it passes none: the
\* default of the parameter, "".
DefaultLogFile == <<>>

\* g_cse(api_key, cx_id, query, api_log_file=""): without a key or an
\* engine id nothing is sent; else log_api_call writes one entry if
\* api_log_file is not empty, and the request is sent.  items is what the
\* service answered, [] included (also returned on a RequestException).
g_cse(api_key, cx_id, api_log_file, items) ==
    IF ~Truthy(api_key) \/ ~Truthy(cx_id)
    THEN [items |-> <<>>, requests |-> 0, log |-> 0]
    ELSE [items |-> items, requests |-> 1,
          log |-> IF Truthy(api_log_file) THEN 1 ELSE 0]

\* time.sleep(1) is reached after a search that returned nothing: only
\* find_and_fill_with_selenium sleeps at the bottom of its loop over the
\* queries; the find workflows `continue`, fill_missing_data_for_leads
\* goes on to the contact step.
SleepsAfterEmptySearch(wf) == wf = FillSelenium

\* time.sleep(1) is reached after a validation, before the next search or
\* the next lead: at the bottom of the loop over the leads
\* (find_missing_websites_for_leads), at the bottom of the loop over the
\* results unless `break` left it (find_missing_websites_with_selenium),
\* at the bottom of the loop over the queries (find_and_fill_with_selenium).
SleepsAfterValidation(wf, accepted, last_result) ==
    CASE wf = FindGoogle -> TRUE
      [] wf = FindSelenium -> ~accepted
      [] wf = FillSelenium -> accepted \/ last_result
      [] wf = FillGoogle -> FALSE

\* Mutant: the session closed at the end of the block only, as without
\* the with statement.
BrowserExit_OnReturnOnly(raised, opened, closed) ==
    IF ~raised /\ opened > closed THEN closed + 1 ELSE closed

\* BrowserAutomation.__exit__, run by the with statement however the block
\* is left: close_browser quits the driver if there is one.  opened and
\* closed count the drivers started and quit by the call.
BrowserExit(raised, opened, closed) ==
    IF opened > closed THEN closed + 1 ELSE closed

\* The locals of a workflow call at its start; validation is the response
\* of the validation call made in the last step, if that step made one.
\* For the lead being processed (lead), calls lists its update_lead_in_db
\* calls, trail the searches and validations made for it, contact the parts of
\* the contact step that ran; committed_leads_count counts the leads with
\* a call that returned True, unresolved_leads_count the leads whose
\* website step ended with no result written; extracted_info is the
\* response of its extraction call, if the contact step made one; reads
\* counts the get_lead_by_id calls of the call; undelayed says that a
\* search call was made and no time.sleep since; cse_requests counts the
\* requests sent to the Custom Search API, cse_log the entries written to
\* the API usage log for them; cancel_at is the position in lead_ids of
\* the record in flight when the caller asked for the batch to stop, 0
\* when it has not asked.
NewRun(wf, lead_ids) ==
    [wf |-> wf, lead_ids |-> lead_ids, i |-> 1, pc |-> "record",
     website_url |-> NULL, is_lead_updated |-> FALSE,
     q |-> 1, search_results |-> <<>>, r |-> 1,
     updated_leads_count |-> 0, validation |-> NoValidation,
     searches |-> NoCalls, validations |-> NoCalls, filled |-> {},
     lead |-> 0, calls |-> <<>>, trail |-> <<>>, contact |-> {},
     committed_leads_count |-> 0, unresolved_leads_count |-> 0,
     action |-> NoAction, extracted_info |-> NoValidation,
     session |-> SessionOk, reads |-> 0,
     opened |-> IF UsesBrowser(wf) THEN 1 ELSE 0, closed |-> 0,
     undelayed |-> FALSE,
     gcp_config |-> KeyedConfig, cse_requests |-> 0, cse_log |-> 0,
     cancel_at |-> 0]

\* The locals when the loop moves to the next lead id.
NextLead(rn) ==
    [rn EXCEPT !.i = @ + 1, !.pc = "record", !.website_url = NULL,
               !.is_lead_updated = FALSE, !.q = 1, !.search_results = <<>>,
               !.r = 1]

\* The value returned: (updated, failed) for find_and_fill_with_selenium,
\* updated for the others.
Returned(wf, lead_ids, updated) ==
    IF wf = FillSelenium THEN <<updated, Len(lead_ids) - updated>>
    ELSE <<updated>>

EnrichKinds ==
    {Contact(NULL, NULL, NULL, NULL),
     Contact(<<>>, <<"p">>, <<"m">>, <<"s">>),
     Contact(UrlB, NULL, <<"m">>, NULL),
     WithDomain(<<"a.com">>)}

LeadIdLists ==
    UNION {[1..n -> 1..(MaxEnrichLeads + 1)] : n \in 0..MaxRunLeads}

InitEnrich ==
    /\ leads \in StoresOf(EnrichKinds, MaxEnrichLeads)
    /\ smart_lists = {}
    /\ pre = {}
    /\ last = [op |-> "init"]
    /\ run = NoRun
    /\ hist = NoHist
    /\ enriched = {}
    /\ advanced_lead_reports = {}

\* The call, up to the first lead: without the automation tools, or with
\* no driver in the session, a browser workflow returns at once.
CallFrom(action_name, wf, lead_ids) ==
    /\ run = NoRun
    /\ \E AUTOMATION_AVAILABLE \in BOOLEAN, driver \in BOOLEAN,
          gcp_config \in IF UsesGoogle(wf) THEN GcpConfigs ELSE {KeyedConfig} :
            IF UsesBrowser(wf) /\ ~(AUTOMATION_AVAILABLE /\ driver)
            THEN /\ last' = [op |-> wf, lead_ids |-> lead_ids,
                             raised |-> FALSE,
                             ret |-> Returned(wf, lead_ids, 0), i |-> 1,
                             committed |-> 0, unresolved |-> 0,
                             action |-> action_name,
                             result |-> DispatchResult(action_name, FALSE,
                                            Returned(wf, lead_ids, 0)),
                             session |-> IF AUTOMATION_AVAILABLE
                                         THEN NoDriver ELSE NoAutomation,
                             reads |-> 0, opened |-> 0,
                             closed |-> BrowserExit(FALSE, 0, 0)]
                 /\ UNCHANGED run
            ELSE /\ run' = [NewRun(wf, lead_ids) EXCEPT
                                !.action = action_name,
                                !.gcp_config = gcp_config]
                 /\ UNCHANGED last
    /\ pre' = leads
    /\ hist' = [hist EXCEPT !.runs = @ + 1]
    /\ UNCHANGED <<leads, smart_lists, derived>>

CallWorkflow(wf, lead_ids) == CallFrom(NoAction, wf, lead_ids)

\* One call of a workflow on a batch of lead ids.
StartEnrichment ==
    /\ hist.runs = 0
    /\ \E wf \in Workflows, lead_ids \in LeadIdLists : CallWorkflow(wf, lead_ids)

\* A call of a workflow on one lead id, after the calls made before.
StartEnrichmentAgain ==
    /\ hist.runs < MaxRuns
    /\ \E wf \in Workflows, lead_id \in 1..(MaxEnrichLeads + 1) :
          CallWorkflow(wf, <<lead_id>>)

\* Top of the loop over lead_ids: read the lead, decide which step is next.
BeginRecord ==
    /\ run.wf \in Workflows /\ run.pc = "record"
    /\ run.i <= Len(run.lead_ids)
    /\ LET lead_data == get_lead_by_id(leads, run.lead_ids[run.i])
           rn == [run EXCEPT !.validation = NoValidation, !.calls = <<>>,
                             !.trail = <<>>, !.contact = {},
                             !.extracted_info = NoValidation,
                             !.lead = run.lead_ids[run.i],
                             !.reads = @ + 1]
       IN  run' =
             IF run.lead_ids[run.i] \notin Ids(leads) THEN NextLead(rn)
             ELSE IF WebsiteMissing(lead_data)
                  THEN [rn EXCEPT !.pc = "search",
                                  !.website_url = lead_data.website]
             ELSE IF FillsContact(run.wf)
                  THEN [rn EXCEPT !.pc = "contact",
                                  !.website_url = lead_data.website]
             ELSE NextLead(rn)
    /\ UNCHANGED <<leads, smart_lists, pre, last, hist, derived>>

\* Where a workflow goes when the website step is over for this lead.
AfterWebsiteStep(rn) ==
    IF FillsContact(rn.wf) THEN [rn EXCEPT !.pc = "contact"] ELSE NextLead(rn)

\* Where a Selenium workflow goes when a result list is used up.
NextQuery(rn) ==
    IF rn.q + 1 > SearchQueries(rn.wf) THEN AfterWebsiteStep(rn)
    ELSE [rn EXCEPT !.q = @ + 1, !.pc = "search", !.search_results = <<>>,
                    !.r = 1]

\* Entries of the trail of a lead: query number q was sent; result r of
\* query q was put to the model and the link was written or not.
Searched(q) ==
    [kind |-> "search", q |-> q, r |-> 0, link |-> NULL, accepted |-> FALSE]
Validated(q, r, link, accepted) ==
    [kind |-> "validate", q |-> q, r |-> r, link |-> link,
     accepted |-> accepted]

\* One search call: g_cse, or one DuckDuckGo query of the session.
Search ==
    /\ run.wf \in Workflows /\ run.pc = "search"
    /\ LET lead_id == run.lead_ids[run.i]
           counted == [run EXCEPT !.searches[lead_id] = @ + 1,
                                  !.validation = NoValidation,
                                  !.trail = Append(@, Searched(run.q)),
                                  !.undelayed = TRUE]
           nothing == [counted EXCEPT
                          !.undelayed = ~SleepsAfterEmptySearch(run.wf)]
       IN  IF UsesGoogle(run.wf)
           THEN \E items \in GoogleItems :
                   LET cse == g_cse(run.gcp_config.api_key,
                                    run.gcp_config.cx_id, DefaultLogFile,
                                    items)
                       Metered(rn) ==
                           [rn EXCEPT !.cse_requests = @ + cse.requests,
                                      !.cse_log = @ + cse.log]
                   IN  run' = IF cse.items = <<>>
                              THEN AfterWebsiteStep(Metered(nothing))
                              ELSE [Metered(counted) EXCEPT !.pc = "validate",
                                      !.search_results = <<cse.items[1]>>,
                                      !.r = 1]
           ELSE \E blocks \in ResultBlocks :
                   LET results == search_and_scrape_results(
                                      blocks, num_results(run.wf))
                   IN  run' = IF results = <<>> THEN NextQuery(nothing)
                              ELSE [counted EXCEPT !.pc = "validate",
                                      !.search_results = results, !.r = 1]
    /\ UNCHANGED <<leads, smart_lists, pre, last, hist, derived>>

\* An exception raised inside the loop: no handler in the workflow, so
\* the session is closed by the with statement and the call ends without
\* a return value; the leads after the current one are never read.
Propagate ==
    /\ last' = [op |-> run.wf, lead_ids |-> run.lead_ids, raised |-> TRUE,
                ret |-> <<>>, i |-> run.i,
                committed |-> run.committed_leads_count,
                unresolved |-> run.unresolved_leads_count,
                action |-> run.action,
                result |-> DispatchResult(run.action, TRUE, <<>>),
                session |-> run.session, reads |-> run.reads,
                opened |-> run.opened,
                closed |-> BrowserExit(TRUE, run.opened, run.closed)]
    /\ hist' = [hist EXCEPT !.filled = @ \cup run.filled]
    /\ run' = NoRun

\* Where a workflow goes after a result that was not written.
AfterRejection(rn) ==
    IF UsesGoogle(rn.wf) THEN AfterWebsiteStep(rn)
    ELSE IF rn.r + 1 > Len(rn.search_results) THEN NextQuery(rn)
    ELSE [rn EXCEPT !.r = @ + 1]

\* Mutant: no break after the writes, the next result is validated.
AfterAcceptance_NoBreak(rn, link) == AfterRejection(rn)

\* Where a workflow goes after the writes of an accepted result: `break`
\* ends the loop over the results and the loop over the queries; a fill
\* workflow goes on to the contact step with the link, a find workflow
\* counts the lead and takes the next one.
AfterAcceptance(rn, link) ==
    IF FillsContact(rn.wf)
    THEN [rn EXCEPT !.pc = "contact", !.website_url = link,
                    !.is_lead_updated = TRUE]
    ELSE NextLead([rn EXCEPT !.updated_leads_count = @ + 1])

\* One validation call on the current result and, on an accepted verdict,
\* the two writes that follow it.
Validate ==
    /\ run.wf \in Workflows /\ run.pc = "validate"
    /\ \E reply \in ValidationReplies :
        LET lead_id == run.lead_ids[run.i]
            validation == call_ollama_model(reply, TRUE)
            link == run.search_results[run.r].link
            accepted == /\ Accepts(run.wf, validation)
                        /\ (ChecksLink(run.wf) => Truthy(link))
            counted == [run EXCEPT
                          !.validations[lead_id] = @ + 1,
                          !.validation = validation,
                          !.trail = Append(@, Validated(run.q, run.r, link,
                                                        accepted)),
                          !.undelayed =
                              @ /\ ~SleepsAfterValidation(run.wf, accepted,
                                       run.r = Len(run.search_results))]
            written == [counted EXCEPT
                          !.filled = IF Truthy(link) THEN @ \cup {lead_id} ELSE @,
                          !.calls = @ \o CommitWebsiteCalls(leads, lead_id, link)]
        IN  IF Raises(validation)
            THEN Propagate /\ UNCHANGED leads
            ELSE IF accepted
            THEN /\ leads' = CommitWebsite(leads, lead_id, link)
                 /\ run' = AfterAcceptance(written, link)
                 /\ UNCHANGED <<last, hist>>
            ELSE /\ run' = AfterRejection(counted)
                 /\ UNCHANGED <<leads, last, hist>>
    /\ UNCHANGED <<smart_lists, pre, derived>>

NeedsContactInfo(lead_data) ==
    \E field \in {"phone", "email", "address"} : ~Truthy(lead_data[field])

\* Mutant: the contact step entered without a website.
SkipsContact_IgnoringWebsite(website_url, lead_data) ==
    ~NeedsContactInfo(lead_data)

\* The contact step is not entered: `if website_url:` fails, or no contact
\* field of the lead read again is empty.
SkipsContact(website_url, lead_data) ==
    ~Truthy(website_url) \/ ~NeedsContactInfo(lead_data)

\* What find_and_click_link did: returned (its value is not used), or let
\* a WebDriverException other than the two it catches out.
ClickOutcomes == {"returned", "WebDriverException"}

\* The contact step: with a website and a contact field still empty, open
\* the site, look for a contact page, read the page, ask the model, write
\* the fields found.  fill_missing_data_for_leads does not test what
\* navigate_to_url returned.
ExtractContact ==
    /\ run.wf \in Workflows /\ run.pc = "contact"
    /\ LET lead_id == run.lead_ids[run.i]
           lead_data == get_lead_by_id(leads, lead_id)
           skip == [run EXCEPT !.pc = "end", !.validation = NoValidation,
                               !.reads = IF Truthy(run.website_url)
                                         THEN @ + 1 ELSE @]
           Did(steps) == [skip EXCEPT !.contact = steps]
       IN  IF SkipsContact(run.website_url, lead_data)
           THEN run' = skip /\ UNCHANGED <<leads, last, hist>>
           ELSE \E navigated \in BOOLEAN, click \in ClickOutcomes,
                   page_text \in BOOLEAN, reply \in ContactReplies :
                   LET extracted_info == call_ollama_model(reply, TRUE)
                       st == FillFields(
                               [rows |-> leads, updated |-> run.is_lead_updated,
                                calls |-> run.calls],
                               lead_id, lead_data, extracted_info, 1)
                   IN  IF run.wf = FillSelenium /\ ~navigated
                       THEN /\ run' = Did({"navigate"})
                            /\ UNCHANGED <<leads, last, hist>>
                       ELSE IF click = "WebDriverException"
                       THEN Propagate /\ UNCHANGED leads
                       ELSE IF ~page_text
                       THEN /\ run' = Did({"navigate", "click", "page_text"})
                            /\ UNCHANGED <<leads, last, hist>>
                       ELSE IF Raises(extracted_info)
                       THEN Propagate /\ UNCHANGED leads
                       ELSE IF ~IsDict(extracted_info)
                       THEN /\ run' = [Did({"navigate", "click", "page_text",
                                            "extract"})
                                         EXCEPT !.extracted_info = extracted_info]
                            /\ UNCHANGED <<leads, last, hist>>
                       ELSE /\ leads' = st.rows
                            /\ run' = [Did({"navigate", "click", "page_text",
                                            "extract"})
                                         EXCEPT !.is_lead_updated = st.updated,
                                                !.calls = st.calls,
                                                !.extracted_info = extracted_info]
                            /\ UNCHANGED <<last, hist>>
    /\ UNCHANGED <<smart_lists, pre, derived>>

\* The website step ran for the lead and wrote no result.
WebsiteUnresolved(rn) ==
    /\ rn.trail # <<>>
    /\ \A k \in 1..Len(rn.trail) : ~rn.trail[k].accepted

\* Bottom of the loop of the two fill workflows: count the lead, sleep.
EndRecord ==
    /\ run.wf \in Workflows /\ run.pc = "end"
    /\ run' = NextLead([run EXCEPT !.validation = NoValidation,
                          !.updated_leads_count =
                              IF run.is_lead_updated THEN @ + 1 ELSE @,
                          !.committed_leads_count =
                              IF \E k \in 1..Len(run.calls) : run.calls[k].ret
                              THEN @ + 1 ELSE @,
                          !.unresolved_leads_count =
                              IF WebsiteUnresolved(run) THEN @ + 1 ELSE @,
                          !.undelayed = FALSE])
    /\ UNCHANGED <<leads, smart_lists, pre, last, hist, derived>>

\* The loop is over: the session is closed and the counts are returned.
ReturnEnrichment ==
    /\ run.wf \in Workflows /\ run.pc = "record"
    /\ run.i > Len(run.lead_ids)
    /\ last' = [op |-> run.wf, lead_ids |-> run.lead_ids, raised |-> FALSE,
                ret |-> Returned(run.wf, run.lead_ids, run.updated_leads_count),
                i |-> run.i, committed |-> run.committed_leads_count,
                unresolved |-> run.unresolved_leads_count,
                action |-> run.action,
                result |-> DispatchResult(run.action, FALSE,
                              Returned(run.wf, run.lead_ids,
                                       run.updated_leads_count)),
                session |-> run.session, reads |-> run.reads,
                opened |-> run.opened,
                closed |-> BrowserExit(FALSE, run.opened, run.closed)]
    /\ hist' = [hist EXCEPT !.filled = @ \cup run.filled]
    /\ run' = NoRun
    /\ UNCHANGED <<leads, smart_lists, pre, derived>>

NextEnrich ==
    \/ StartEnrichment \/ BeginRecord \/ Search \/ Validate
    \/ ExtractContact \/ EndRecord \/ ReturnEnrichment

SpecEnrich == InitEnrich /\ [][NextEnrich]_vars

NextRerun ==
    \/ StartEnrichmentAgain \/ BeginRecord \/ Search \/ Validate
    \/ ExtractContact \/ EndRecord \/ ReturnEnrichment

SpecRerun == InitEnrich /\ [][NextRerun]_vars

-----------------------------------------------------------------------------
(* The validation gate and the write-once rule of the enrichment contract. *)

\* The response parses as {is_correct_website: bool}.
WellFormedVerdict(v) ==
    /\ v.t = "dict"
    /\ "is_correct_website" \in DOMAIN v.v
    /\ v.v["is_correct_website"].t = "bool"

\* C8: in each of the four workflows, a validation response that does not
\* parse as {is_correct_website: bool} (no response, raw text, a JSON value
\* that is not an object, an object without the key, an object whose value
\* is not a boolean) writes no website and no domain.
C8_FailClosed ==
    [][(/\ run.wf \in Workflows /\ run.pc = "validate"
        /\ run'.wf \in Workflows
        /\ ~WellFormedVerdict(run'.validation)) => leads' = leads]_vars

\* C9: in a workflow call made after a call that filled a lead's website,
\* that lead gets no search call and no validation call, and every field
\* it held when the call began keeps its value.
C9_WriteOnce ==
    run.wf \in Workflows =>
        \A id \in hist.filled :
            /\ run.searches[id] = 0
            /\ run.validations[id] = 0
            /\ \A r \in pre : r.id = id =>
                  \E n \in leads :
                      /\ n.id = id
                      /\ \A c \in LeadColumns \ {"id"} :
                            Truthy(r[c]) => n[c] = r[c]

\* The second call on a lead whose website the first call filled has gone
\* through that lead's contact step and written a contact field.
C9_Witness ==
    /\ run.wf \in Workflows
    /\ run.pc = "end"
    /\ run.lead_ids[run.i] \in hist.filled
    /\ run.is_lead_updated
    /\ \E r \in pre : r.id = run.lead_ids[run.i] /\ Truthy(r.website)
    /\ leads # pre

-----------------------------------------------------------------------------
(* build_smart_list (core/categorization.py) and the smart_lists table.    *)

\* _get_db_where_clauses(has_website=...), the other filters left unset.
MatchesFilters(r, has_website) ==
    CASE has_website = "True" -> ~IsBlank(r.website)
      [] has_website = "False" -> IsBlank(r.website)
      [] OTHER -> TRUE

\* load_db_paginated(db_file, page_number=1, page_size, **filters): the ids
\* of the frame's rows, in order.
load_db_paginated(rows, page_size, has_website) ==
    Limit(IdsDescending({r.id : r \in {x \in rows : MatchesFilters(x, has_website)}}),
          page_size)

\* get_analyzed_lead_ids_for_list(db_file, list_name)
get_analyzed_lead_ids_for_list(lists, list_name) ==
    {s.lead_id : s \in {x \in lists : x.list_name = list_name}}

\* add_lead_to_smart_list: INSERT OR IGNORE under UNIQUE(list_name, lead_id).
add_lead_to_smart_list(lists, list_name, lead_id, ai_category, ai_justification) ==
    IF \E s \in lists : s.list_name = list_name /\ s.lead_id = lead_id
    THEN lists
    ELSE lists \cup {[list_name |-> list_name, lead_id |-> lead_id,
                      ai_category |-> ai_category,
                      ai_justification |-> ai_justification]}

RECURSIVE Without(_, _)
\* candidate_leads_df[~candidate_leads_df['id'].isin(already_analyzed_ids)]
Without(seq, S) ==
    IF seq = <<>> THEN <<>>
    ELSE IF Head(seq) \in S THEN Without(Tail(seq), S)
    ELSE <<Head(seq)>> \o Without(Tail(seq), S)

\* The leads build_smart_list sends to the model, in order.
leads_to_process(rows, lists, list_name, has_website, max_leads_to_analyze) ==
    Limit(Without(load_db_paginated(rows, max_leads_to_analyze * 2, has_website),
                  get_analyzed_lead_ids_for_list(lists, list_name)),
          max_leads_to_analyze)

\* Mutant: any truthy 'match' taken for a match.
PositiveMatch_Truthy(ai_response) ==
    LET match == DictGet(ai_response, "match")
    IN  \/ match.t = "bool" /\ match.v
        \/ match.t = "str" /\ match.v # <<>>

\* ai_response.get('match') is True
PositiveMatch(ai_response) == IsTrue(DictGet(ai_response, "match"))

Categorized(match) ==
    PyDict([k \in {"match", "category", "justification"} |->
              CASE k = "match" -> match [] k = "category" -> PyText(<<"c">>)
                [] k = "justification" -> PyText(<<"j">>)])

\* Replies to the categorization prompt.
CategorizationReplies ==
    {HttpFailed,
     HttpOk(<<"{}">>, PyDict(<<>>)),
     HttpOk(<<"{match:true}">>, Categorized(PyBool(TRUE))),
     HttpOk(<<"{match:false}">>, Categorized(PyBool(FALSE))),
     HttpOk(<<"{match:'yes'}">>, Categorized(PyText(<<"yes">>))),
     HttpNotObject}

MaxSmartLeads == 3    \* rows of the pool
MaxAnalyze == 2       \* the largest max_leads_to_analyze
MaxBuilds == 2        \* build_smart_list calls in one behaviour

ListNames == {<<>>, <<"L">>, <<"M">>}
ListGoals == {<<"g">>, <<"h">>}

SmartKinds ==
    {Contact(NULL, NULL, NULL, NULL), Contact(UrlB, NULL, NULL, NULL)}

InitSmart ==
    /\ leads \in StoresOf(SmartKinds, MaxSmartLeads)
    /\ smart_lists = {}
    /\ pre = {}
    /\ last = [op |-> "init"]
    /\ run = NoRun
    /\ hist = NoHist
    /\ enriched = {}
    /\ advanced_lead_reports = {}

\* The call, up to the first model call: ValueError on an empty name,
\* (0, 0) when the pool is empty or holds nothing new for the list.
StartBuild ==
    /\ run = NoRun
    /\ hist.runs < MaxBuilds
    /\ \E list_name \in ListNames, list_goal \in ListGoals,
          has_website \in {"None", "True"},
          max_leads_to_analyze \in 1..MaxAnalyze :
          LET todo == leads_to_process(leads, smart_lists, list_name,
                                       has_website, max_leads_to_analyze)
          IN  IF list_name = <<>>
              THEN /\ last' = [op |-> "build_smart_list", raised |-> "ValueError"]
                   /\ UNCHANGED run
              ELSE IF todo = <<>>
              THEN /\ last' = [op |-> "build_smart_list", raised |-> "",
                               list_name |-> list_name, ret |-> <<0, 0>>,
                               max_leads_to_analyze |-> max_leads_to_analyze,
                               answers |-> <<>>]
                   /\ UNCHANGED run
              ELSE /\ run' = [wf |-> "build_smart_list", list_name |-> list_name,
                              list_goal |-> list_goal, lead_ids |-> todo,
                              i |-> 1, success_count |-> 0, failure_count |-> 0,
                              called |-> {}, judged |-> {},
                              max_leads_to_analyze |-> max_leads_to_analyze,
                              start_lists |-> smart_lists, answers |-> <<>>]
                   /\ UNCHANGED last
    /\ pre' = leads
    /\ hist' = [hist EXCEPT !.runs = @ + 1]
    /\ UNCHANGED <<leads, smart_lists, derived>>

\* One turn of the loop: ask the model about the lead, record a match.
\* called is the leads sent to the model so far, judged those for which it
\* answered match true or match false, answers what call_ollama_model gave
\* for each call.  An exception out of call_ollama_model is caught nowhere
\* and ends the build.
Categorize ==
    /\ run.wf = "build_smart_list"
    /\ run.i <= Len(run.lead_ids)
    /\ \E reply \in CategorizationReplies :
        LET lead_id == run.lead_ids[run.i]
            ai_response == call_ollama_model(reply, TRUE)
            verdict == /\ IsDict(ai_response)
                       /\ DictGet(ai_response, "match").t = "bool"
            asked == [run EXCEPT !.i = @ + 1, !.called = @ \cup {lead_id},
                        !.judged = IF verdict THEN @ \cup {lead_id} ELSE @,
                        !.answers = Append(@, ai_response)]
        IN  IF Raises(ai_response)
            THEN /\ last' = [op |-> "build_smart_list",
                             raised |-> "AttributeError",
                             list_name |-> run.list_name,
                             max_leads_to_analyze |-> run.max_leads_to_analyze,
                             answers |-> asked.answers]
                 /\ hist' = [hist EXCEPT !.evaluated =
                       @ \cup {<<run.list_name, run.list_goal, id>> :
                                 id \in run.judged}]
                 /\ run' = NoRun
                 /\ UNCHANGED smart_lists
            ELSE IF IsDict(ai_response) /\ "match" \in DOMAIN ai_response.v
            THEN IF PositiveMatch(ai_response)
                 THEN /\ smart_lists' = add_lead_to_smart_list(
                            smart_lists, run.list_name, lead_id,
                            DbValue(DictGet(ai_response, "category")),
                            DbValue(DictGet(ai_response, "justification")))
                      /\ run' = [asked EXCEPT !.success_count = @ + 1]
                      /\ UNCHANGED <<last, hist>>
                 ELSE /\ run' = asked
                      /\ UNCHANGED <<smart_lists, last, hist>>
            ELSE /\ run' = [asked EXCEPT !.failure_count = @ + 1]
                 /\ UNCHANGED <<smart_lists, last, hist>>
    /\ UNCHANGED <<leads, pre, derived>>

\* The loop is over: the counts are returned.
ReturnBuild ==
    /\ run.wf = "build_smart_list"
    /\ run.i > Len(run.lead_ids)
    /\ last' = [op |-> "build_smart_list", raised |-> "",
                list_name |-> run.list_name,
                ret |-> <<run.success_count, run.failure_count>>,
                max_leads_to_analyze |-> run.max_leads_to_analyze,
                answers |-> run.answers]
    /\ hist' = [hist EXCEPT !.evaluated =
                  @ \cup {<<run.list_name, run.list_goal, id>> : id \in run.judged}]
    /\ run' = NoRun
    /\ UNCHANGED <<leads, smart_lists, pre, derived>>

NextSmart == StartBuild \/ Categorize \/ ReturnBuild

SpecSmart == InitSmart /\ [][NextSmart]_vars

\* C10: a build of a list makes no model call for a lead that an earlier
\* build of the same list, with the same goal and the same pool, had the
\* model judge, whether that lead was matched or rejected.
C10_NoRedo ==
    run.wf = "build_smart_list" =>
        \A id \in run.called :
            <<run.list_name, run.list_goal, id>> \notin hist.evaluated

-----------------------------------------------------------------------------
(* Claims about the two Find & Fill workflows.                             *)

FillWorkflows == {FillGoogle, FillSelenium}

\* C11: batch isolation in the Find & Fill workflows: when processing one
\* record raises an unexpected error, the other records are still
\* processed and the call returns its counts instead of raising; so a call
\* of fill_missing_data_for_leads or find_and_fill_with_selenium never ends
\* with an exception.
C11_BatchIsolation ==
    last.op \in FillWorkflows => ~last.raised

Columns(calls) == [k \in 1..Len(calls) |-> calls[k].column]
LastOf(seq) == seq[Len(seq)]

\* The last step was a validation answered {"is_correct_website": true}
\* for a result that has a link.
ValidatedTrue ==
    /\ run.wf \in Workflows
    /\ IsDict(run.validation)
    /\ IsTrue(DictGet(run.validation, "is_correct_website"))
    /\ Truthy(LastOf(run.trail).link)

\* C14: when a lead lacks its website and the validation gate answers
\* {is_correct_website: true} for the candidate, the workflow calls
\* update_lead_in_db exactly twice, for website then domain, and the lead
\* holds the candidate URL as website and the domain derived from it; the
\* store at the call held no two leads of one identity.
C14_WebsiteAndDomain ==
    (ValidatedTrue /\ LeadIdentity(pre)) =>
        LET link == LastOf(run.trail).link
            row == RowOf(leads, run.lead)
        IN  /\ Columns(run.calls) = <<"website", "domain">>
            /\ row.website = link
            /\ row.domain = DomainOfUrl(link).domain

\* C17: contact fields are never overwritten: a step of the contact
\* stage changes phone, email or address of the lead only where the lead
\* read at that step had the field empty and the extraction gave a value
\* that is not None, and then to that value; a populated field and every
\* other column and row stay as they were; every text found for an empty
\* field is committed, also when other fields were not found, and the
\* record is then counted as updated.
C17_NeverOverwritten ==
    [][(run.wf \in FillWorkflows /\ run.pc = "contact" /\ run'.wf = run.wf) =>
         LET before == RowOf(leads, run.lead)
             after == RowOf(leads', run.lead)
             info == run'.extracted_info
         IN  /\ \A r \in leads : r.id # run.lead => r \in leads'
             /\ \A c \in LeadColumns \ {"phone", "email", "address"} :
                   after[c] = before[c]
             /\ \A f \in {"phone", "email", "address"} :
                   /\ Truthy(before[f]) => after[f] = before[f]
                   /\ after[f] # before[f] =>
                         /\ IsDict(info)
                         /\ DictGet(info, f) # PyNone
                         /\ after[f] = DbValue(DictGet(info, f))
                   /\ (/\ ~Truthy(before[f]) /\ IsDict(info)
                       /\ DictGet(info, f).t = "str"
                       /\ PyTruthy(DictGet(info, f))) =>
                         /\ after[f] = DictGet(info, f).v
                         /\ run'.is_lead_updated
                         /\ run'.pc = "end"]_vars

\* A partial extraction: the phone found and written, the email the lead
\* already held kept, no address found.
C17_Witness ==
    /\ run.wf \in FillWorkflows /\ run.pc = "end"
    /\ IsDict(run.extracted_info)
    /\ DictGet(run.extracted_info, "phone") = PyText(<<"P">>)
    /\ DictGet(run.extracted_info, "address") = PyNone
    /\ run.calls = <<Call("phone", TRUE)>>
    /\ run.is_lead_updated
    /\ LET row == RowOf(leads, run.lead)
       IN  row.phone = <<"P">> /\ row.email = <<"m">> /\ row.address = NULL

\* A write was committed for the lead being processed: one of its
\* update_lead_in_db calls matched the row and returned True.
Committed(rn) == \E k \in 1..Len(rn.calls) : rn.calls[k].ret

\* C19: accounting of the two Find & Fill workflows: a record is counted
\* as updated if and only if one of its writes was committed to the store
\* (an update that was attempted and changed no row does not count), and
\* the updated count returned is the number of such records.
C19_UpdatedIffCommitted ==
    /\ (run.wf \in FillWorkflows /\ run.pc = "end") =>
          (run.is_lead_updated <=> Committed(run))
    /\ (last.op \in FillWorkflows /\ ~last.raised) =>
          last.ret[1] = last.committed

SeleniumWorkflows == {FindSelenium, FillSelenium}

WebsiteCalls(calls) == {k \in 1..Len(calls) : calls[k].column = "website"}

\* C20: short-circuit and ordering of the website step in the Selenium
\* workflows: for one lead the first query is sent first and the second
\* only after every result of the first was rejected; the results of a
\* query are put to the model one by one in the order returned; an
\* accepted result is the last thing searched or validated for the lead,
\* and the website is written once if a result was accepted, never
\* otherwise.
C20_ShortCircuit ==
    run.wf \in SeleniumWorkflows =>
        LET t == run.trail
        IN  /\ t # <<>> => t[1] = Searched(1)
            /\ \A k \in 1..(Len(t) - 1) :
                  /\ ~t[k].accepted
                  /\ t[k + 1].kind = "search" => t[k + 1].q = t[k].q + 1
                  /\ t[k + 1].kind = "validate" =>
                        t[k + 1].q = t[k].q /\ t[k + 1].r = t[k].r + 1
            /\ \A k \in 1..Len(t) :
                  /\ t[k].q \in 1..2
                  /\ (/\ t[k].kind = "validate" /\ t[k].q = run.q
                      /\ run.pc \in {"validate", "contact", "end"}) =>
                        /\ t[k].r \in 1..Len(run.search_results)
                        /\ t[k].link = run.search_results[t[k].r].link
            /\ Cardinality(WebsiteCalls(run.calls))
                  = IF t # <<>> /\ LastOf(t).accepted THEN 1 ELSE 0
            /\ (t # <<>> /\ LastOf(t).accepted) =>
                  RowOf(leads, run.lead).website = LastOf(t).link

\* The second result of the second query accepted after three rejections.
C20_Witness ==
    /\ run.wf \in SeleniumWorkflows
    /\ Len(run.trail) = 6
    /\ LastOf(run.trail) = Validated(2, 2, UrlA, TRUE)
    /\ run.trail[5] = Validated(2, 1, UrlB, FALSE)
    /\ run.trail[2].q = 1
    /\ RowOf(leads, run.lead).website = UrlA

-----------------------------------------------------------------------------
(* Basic enrichment: run_basic_enrichment over the leads unenriched        *)
(* returns, with the PageSpeed and public-email lookups as inputs.         *)

RECURSIVE IdsAscending(_)
IdsAscending(S) ==
    IF S = {} THEN <<>>
    ELSE <<MinOf(S)>> \o IdsAscending(S \ {MinOf(S)})

\* unenriched(db_file): the ids of the leads with a domain and no row in
\* enriched, in rowid order.
unenriched(rows, enriched_rows) ==
    IdsAscending({r.id : r \in {l \in rows :
        /\ HasDomain(l)
        /\ ~\E e \in enriched_rows : e.lead_id = l.id}})

\* Mutant: INSERT OR REPLACE, the later values taking the place of the
\* first.
save_enriched_Replace(enriched_rows, lead_id, data) ==
    LET kept == {e \in enriched_rows : e.lead_id # lead_id}
    IN  kept \cup
           {[id |-> NewId(enriched_rows), lead_id |-> lead_id,
             psi |-> DictGet(data, "psi"),
             public_emails |-> DictGet(data, "public_emails"),
             pattern |-> DictGet(data, "pattern")]}

\* save_enriched(db_file, lead_id, data): INSERT OR IGNORE on the UNIQUE
\* lead_id; data.get(...) is None for a key the dict lacks.
save_enriched(enriched_rows, lead_id, data) ==
    IF \E e \in enriched_rows : e.lead_id = lead_id THEN enriched_rows
    ELSE enriched_rows \cup
           {[id |-> NewId(enriched_rows), lead_id |-> lead_id,
             psi |-> DictGet(data, "psi"),
             public_emails |-> DictGet(data, "public_emails"),
             pattern |-> DictGet(data, "pattern")]}

\* What pagespeed(...) returns: None, or int(score * 100).
PsiScores == {PyNone, PyInt(0), PyInt(90)}
\* What public_emails(...) returns: None, or the addresses joined by "; ".
PublicEmails == {PyNone, PyText(<<"e">>)}

\* enriched_data after the two lookups of one lead.
enriched_data(psi_score, emails) ==
    PyDict([k \in ({"psi" : x \in {psi_score} \ {PyNone}}
                   \cup {"public_emails" : x \in {e \in {emails} : PyTruthy(e)}})
              |-> IF k = "psi" THEN psi_score ELSE emails])

MaxBasicLeads == 3   \* rows of the store basic enrichment runs on
MaxBasicRuns == 2    \* calls of run_basic_enrichment in one behaviour

BasicEnrichment == "run_basic_enrichment"

BasicKinds == {WithDomain(<<"a.com">>), WithDomain(<<"b.com">>),
               WithDomain(NULL), WithDomain(<<>>)}

\* processed: the leads whose lookups an earlier, finished call made.
NoBasicHist == [runs |-> 0, processed |-> {}]

InitBasic ==
    /\ leads \in StoresOf(BasicKinds, MaxBasicLeads)
    /\ smart_lists = {}
    /\ pre = {}
    /\ last = [op |-> "init"]
    /\ run = NoRun
    /\ hist = NoBasicHist
    /\ enriched = {}
    /\ advanced_lead_reports = {}

\* The call up to the loop: nothing selected returns (0, 0) at once.
StartBasic ==
    /\ run = NoRun /\ hist.runs < MaxBasicRuns
    /\ LET leads_to_enrich == unenriched(leads, enriched)
       IN  IF leads_to_enrich = <<>>
           THEN /\ last' = [op |-> BasicEnrichment, ret |-> <<0, 0>>,
                            selected |-> <<>>]
                /\ UNCHANGED run
           ELSE /\ run' = [wf |-> BasicEnrichment,
                           leads_to_enrich |-> leads_to_enrich, i |-> 1,
                           success_count |-> 0]
                /\ UNCHANGED last
    /\ hist' = [hist EXCEPT !.runs = @ + 1]
    /\ UNCHANGED <<leads, smart_lists, pre, advanced_lead_reports, enriched>>

\* The loop body for one selected lead: the two lookups, then the save when
\* enriched_data is not empty.
EnrichRow ==
    /\ run.wf = BasicEnrichment /\ run.i <= Len(run.leads_to_enrich)
    /\ \E psi_score \in PsiScores, emails \in PublicEmails :
         LET data == enriched_data(psi_score, emails)
         IN  IF PyTruthy(data)
             THEN /\ enriched' = save_enriched(enriched,
                                               run.leads_to_enrich[run.i], data)
                  /\ run' = [run EXCEPT !.i = @ + 1, !.success_count = @ + 1]
             ELSE /\ UNCHANGED enriched
                  /\ run' = [run EXCEPT !.i = @ + 1]
    /\ UNCHANGED <<leads, smart_lists, pre, last, hist, advanced_lead_reports>>

ReturnBasic ==
    /\ run.wf = BasicEnrichment /\ run.i > Len(run.leads_to_enrich)
    /\ last' = [op |-> BasicEnrichment, ret |-> <<run.success_count, 0>>,
                selected |-> run.leads_to_enrich]
    /\ hist' = [hist EXCEPT
                  !.processed = @ \cup {run.leads_to_enrich[k] :
                                          k \in 1..Len(run.leads_to_enrich)}]
    /\ run' = NoRun
    /\ UNCHANGED <<leads, smart_lists, pre, derived>>

NextBasic == StartBasic \/ EnrichRow \/ ReturnBasic

SpecBasic == InitBasic /\ [][NextBasic]_vars

\* C12: basic enrichment is not retried after a completed-but-empty
\* attempt: a lead that an earlier call of run_basic_enrichment processed
\* has an enriched record and is not selected by a later call, so no lookup
\* is made for it again.
C12_NoRetry ==
    /\ \A id \in hist.processed : \E e \in enriched : e.lead_id = id
    /\ run.wf = BasicEnrichment =>
         \A k \in 1..Len(run.leads_to_enrich) :
             run.leads_to_enrich[k] \notin hist.processed

-----------------------------------------------------------------------------
(* save_advanced_report.  report_data is a Python dict; the table row      *)
(* keeps the three JSON columns as text and the other columns as the       *)
(* values bound; sqlite_sequence holds the largest id ever given out.      *)

\* json.dumps(x) for the values a report holds.
JsonDumps(x) ==
    CASE x.t = "None" -> <<"null">>
      [] x.t = "bool" -> IF x.v THEN <<"true">> ELSE <<"false">>
      [] x.t = "str" -> <<"\"">> \o x.v \o <<"\"">>
      [] x.t = "list" -> <<"[">> \o [i \in 1..x.len |-> "item"] \o <<"]">>
      [] x.t = "dict" -> <<"{">> \o [i \in 1..Cardinality(DOMAIN x.v) |-> "pair"]
                                 \o <<"}">>

\* d.get(k, default)
DictGetOr(d, k, default) == IF k \in DOMAIN d.v THEN d.v[k] ELSE default

JsonColumns == {"identified_needs", "outreach_strategy", "social_media_links"}
PlainColumns == {"critical_missing_info", "pagespeed_score_latest",
                 "website_analysis_notes", "screenshot_path"}
ReportColumns == JsonColumns \cup PlainColumns

\* The default handed to report_data.get for a column.
DefaultOf(column) ==
    CASE column \in {"identified_needs", "outreach_strategy"} -> PyList(0)
      [] column = "social_media_links" -> PyDict(<<>>)
      [] OTHER -> PyNone

\* A parameter of the INSERT as sqlite3 binds it: an int besides None and
\* str.
BindableParam(x) == x.t \in {"None", "str", "int"}

\* The row the statement inserts.
ReportRow(id, report_data, now) ==
    [c \in {"id", "lead_id", "last_analyzed_timestamp"} \cup ReportColumns |->
        CASE c = "id" -> id
          [] c = "lead_id" -> report_data.v["lead_id"].v
          [] c = "last_analyzed_timestamp" -> now
          [] c \in JsonColumns ->
                JsonDumps(DictGetOr(report_data, c, DefaultOf(c)))
          [] OTHER -> DictGet(report_data, c)]

\* Mutant: an upsert that keeps the prior report's value for a column the
\* new report_data lacks.
save_advanced_report_Merged(reports, seq, report_data, now) ==
    IF ~PyTruthy(report_data) \/ "lead_id" \notin DOMAIN report_data.v
    THEN [rows |-> reports, seq |-> seq, ret |-> FALSE]
    ELSE IF \/ report_data.v["lead_id"].t # "int"
            \/ \E c \in PlainColumns : ~BindableParam(DictGet(report_data, c))
    THEN [rows |-> reports, seq |-> seq, ret |-> FALSE]
    ELSE LET old == {r \in reports : r.lead_id = report_data.v["lead_id"].v}
             new == ReportRow(seq + 1, report_data, now)
             kept == IF old = {} THEN new
                     ELSE [c \in DOMAIN new |->
                             IF c \in ReportColumns /\ c \notin DOMAIN report_data.v
                             THEN (CHOOSE r \in old : TRUE)[c] ELSE new[c]]
         IN  [rows |-> (reports \ old) \cup {kept}, seq |-> seq + 1,
              ret |-> TRUE]

\* save_advanced_report(db_file, report_data): INSERT OR REPLACE deletes
\* the row holding the same lead_id and inserts the new one under a fresh
\* AUTOINCREMENT id; a NULL lead_id or a parameter sqlite3 cannot bind
\* raises sqlite3.Error, reported as False.
save_advanced_report(reports, seq, report_data, now) ==
    IF ~PyTruthy(report_data) \/ "lead_id" \notin DOMAIN report_data.v
    THEN [rows |-> reports, seq |-> seq, ret |-> FALSE]
    ELSE IF \/ report_data.v["lead_id"].t # "int"
            \/ \E c \in PlainColumns : ~BindableParam(DictGet(report_data, c))
    THEN [rows |-> reports, seq |-> seq, ret |-> FALSE]
    ELSE LET old == {r \in reports : r.lead_id = report_data.v["lead_id"].v}
         IN  [rows |-> (reports \ old)
                         \cup {ReportRow(seq + 1, report_data, now)},
              seq |-> seq + 1, ret |-> TRUE]

MaxReportLeads == 2   \* lead ids reports are saved for
MaxSaves == 3         \* calls of save_advanced_report in one behaviour

\* A dict built from a set of (key, value) choices.
ReportDict(lead_id, fields) ==
    PyDict([k \in {"lead_id"} \cup DOMAIN fields |->
              IF k = "lead_id" THEN lead_id ELSE fields[k]])

\* The fields enrich_lead_with_ai_agent hands over, a dict with lead_id
\* alone, one with other columns, one with a list where a text belongs.
ReportFields ==
    {[k \in {"website_analysis_notes", "screenshot_path", "identified_needs",
             "outreach_strategy", "critical_missing_info"} |->
        CASE k = "website_analysis_notes" -> PyText(<<"w">>)
          [] k = "screenshot_path" -> PyNone
          [] k \in {"identified_needs", "outreach_strategy"} -> PyList(0)
          [] OTHER -> PyText(<<"See report">>)],
     <<>>,
     [k \in {"identified_needs", "social_media_links",
             "pagespeed_score_latest", "screenshot_path"} |->
        CASE k = "identified_needs" -> PyList(1)
          [] k = "social_media_links" ->
                PyDict([p \in {"linkedin"} |-> PyText(<<"l">>)])
          [] k = "pagespeed_score_latest" -> PyInt(90)
          [] OTHER -> PyText(<<"s.png">>)],
     [k \in {"critical_missing_info"} |-> PyList(1)]}

ReportData ==
    {PyDict(<<>>), PyDict([k \in {"identified_needs"} |-> PyList(1)]),
     ReportDict(PyNone, <<>>)}
    \cup {ReportDict(PyInt(id), f) : id \in 1..MaxReportLeads, f \in ReportFields}

SaveReport == "save_advanced_report"

\* seq is the sqlite_sequence entry of the table, saves the clock.
NoReportHist == [saves |-> 0, seq |-> 0]

InitReport ==
    /\ leads = {}
    /\ smart_lists = {}
    /\ pre = {}
    /\ last = [op |-> "init"]
    /\ run = NoRun
    /\ hist = NoReportHist
    /\ enriched = {}
    /\ advanced_lead_reports = {}

\* One call; pre is the table before it.
SaveAdvancedReport ==
    /\ hist.saves < MaxSaves
    /\ \E report_data \in ReportData :
         LET res == save_advanced_report(advanced_lead_reports, hist.seq,
                                         report_data, hist.saves + 1)
         IN  /\ advanced_lead_reports' = res.rows
             /\ hist' = [saves |-> hist.saves + 1, seq |-> res.seq]
             /\ last' = [op |-> SaveReport, report_data |-> report_data,
                         ret |-> res.ret, now |-> hist.saves + 1]
    /\ pre' = advanced_lead_reports
    /\ UNCHANGED <<leads, smart_lists, run, enriched>>

NextReport == SaveAdvancedReport

SpecReport == InitReport /\ [][NextReport]_vars

ReportsOf(reports, lead_id) == {r \in reports : r.lead_id = lead_id}

\* C13: save_advanced_report is an insert-or-replace keyed by lead_id:
\* there is at most one report per lead at any time; a call that saved
\* leaves for its lead exactly the row of its own report_data, every column
\* the data lacks at its default ("[]", "[]", "{}" or NULL) whatever the
\* prior report held; the other leads' reports are untouched, and a call
\* that did not save leaves the table as it was.
C13_InsertOrReplace ==
    /\ \A a, b \in advanced_lead_reports : a.lead_id = b.lead_id => a = b
    /\ last.op = SaveReport =>
         LET d == last.report_data
         IN  /\ ~last.ret => advanced_lead_reports = pre
             /\ last.ret =>
                  LET id == d.v["lead_id"].v
                      mine == ReportsOf(advanced_lead_reports, id)
                  IN  /\ Cardinality(mine) = 1
                      /\ \A r \in mine :
                           /\ r.last_analyzed_timestamp = last.now
                           /\ \A c \in PlainColumns :
                                r[c] = IF c \in DOMAIN d.v THEN d.v[c] ELSE PyNone
                           /\ \A c \in JsonColumns :
                                r[c] = IF c \in DOMAIN d.v THEN JsonDumps(d.v[c])
                                       ELSE IF c = "social_media_links"
                                            THEN <<"{", "}">>
                                            ELSE <<"[", "]">>
                      /\ advanced_lead_reports \ mine
                           = pre \ ReportsOf(pre, id)

\* A report replaced by a later call whose data lacks a column the prior
\* report had filled.
C13_Witness ==
    /\ last.op = SaveReport /\ last.ret
    /\ \E old \in pre :
         /\ old.lead_id = last.report_data.v["lead_id"].v
         /\ \E c \in PlainColumns \ DOMAIN last.report_data.v :
              old[c] # PyNone
         /\ \E c \in JsonColumns \ DOMAIN last.report_data.v :
              old[c] \notin {<<"[", "]">>, <<"{", "}">>}
    /\ Cardinality(advanced_lead_reports) = 2

-----------------------------------------------------------------------------
(* run_enrichment_action and the deep analysis batch it routes to.         *)

Dispatcher == "run_enrichment_action"
ActionNames == {DeepAnalysis, SeleniumAction, GoogleAction, "Bogus", ""}

\* The workflow an action name is routed to.
WorkflowOf(action_name) ==
    CASE action_name = SeleniumAction -> FillSelenium
      [] action_name = GoogleAction -> FillGoogle
      [] action_name = DeepAnalysis -> "enrich_leads_with_ai_agent_batch"

\* Replies to the report prompt (expect_json is False).
ReportReplies ==
    {HttpFailed, HttpNotObject, HttpOk(<<>>, NoParse),
     HttpOk(<<"# report">>, NoParse)}

\* report_data as enrich_lead_with_ai_agent builds it; report_file_path is
\* a key save_advanced_report does not read.
report_data(lead_id, website_text, screenshot_path) ==
    ReportDict(PyInt(lead_id),
       [k \in {"website_analysis_notes", "screenshot_path", "report_file_path",
               "identified_needs", "outreach_strategy",
               "critical_missing_info"} |->
          CASE k = "website_analysis_notes" -> PyText(website_text)
            [] k = "screenshot_path" -> screenshot_path
            [] k = "report_file_path" -> PyText(<<"report.md">>)
            [] k \in {"identified_needs", "outreach_strategy"} -> PyList(0)
            [] OTHER -> PyText(<<"See report file for details.">>)])

\* hist in a behaviour of the dispatcher: seq is the sqlite_sequence entry
\* of advanced_lead_reports.
NoDispatchHist == [runs |-> 0, filled |-> {}, evaluated |-> {}, seq |-> 0]

InitDispatch ==
    /\ leads \in StoresOf(EnrichKinds, MaxEnrichLeads)
    /\ smart_lists = {}
    /\ pre = {}
    /\ last = [op |-> "init"]
    /\ run = NoRun
    /\ hist = NoDispatchHist
    /\ enriched = {}
    /\ advanced_lead_reports = {}

\* The result of a call that invoked no workflow.
Refused(action_name, lead_ids, message) ==
    [op |-> Dispatcher, lead_ids |-> lead_ids, raised |-> FALSE, ret |-> <<>>,
     i |-> 1, committed |-> 0, unresolved |-> 0, action |-> action_name,
     result |-> <<PyNone, Message(message, <<>>)>>,
     session |-> SessionOk, reads |-> 0, opened |-> 0, closed |-> 0,
     outcomes |-> <<>>]

\* run_enrichment_action up to the call of the workflow.
RunEnrichmentAction ==
    /\ run = NoRun /\ hist.runs = 0
    /\ \E action_name \in ActionNames, lead_ids \in LeadIdLists :
         IF lead_ids = <<>>
         THEN /\ last' = Refused(action_name, lead_ids,
                                 "No leads were selected.")
              /\ hist' = [hist EXCEPT !.runs = @ + 1]
              /\ pre' = leads
              /\ UNCHANGED <<leads, smart_lists, run, derived>>
         ELSE IF action_name \in {SeleniumAction, GoogleAction}
         THEN CallFrom(action_name, WorkflowOf(action_name), lead_ids)
         ELSE IF action_name = DeepAnalysis
         THEN /\ \E AUTOMATION_AVAILABLE \in BOOLEAN :
                   IF ~AUTOMATION_AVAILABLE
                   THEN /\ last' = [Refused(action_name, lead_ids, "")
                                      EXCEPT !.op = WorkflowOf(action_name),
                                             !.ret = <<0, Len(lead_ids)>>,
                                             !.result = DispatchResult(
                                                 action_name, FALSE,
                                                 <<0, Len(lead_ids)>>),
                                             !.session = NoAutomation]
                        /\ UNCHANGED run
                   ELSE /\ \E driver \in BOOLEAN :
                             run' = [wf |-> WorkflowOf(action_name),
                                     lead_ids |-> lead_ids, i |-> 1,
                                     success_count |-> 0, failure_count |-> 0,
                                     action |-> action_name,
                                     session |-> IF driver THEN SessionOk
                                                 ELSE NoDriver,
                                     reads |-> 0, opened |-> 0, closed |-> 0,
                                     outcomes |-> <<>>]
                        /\ UNCHANGED last
              /\ hist' = [hist EXCEPT !.runs = @ + 1]
              /\ pre' = leads
              /\ UNCHANGED <<leads, smart_lists, derived>>
         ELSE /\ last' = Refused(action_name, lead_ids, "Unknown action:")
              /\ hist' = [hist EXCEPT !.runs = @ + 1]
              /\ pre' = leads
              /\ UNCHANGED <<leads, smart_lists, run, derived>>

\* Mutant: no except clause counting the lead whose analysis raised.
Counted_RaisedDropped(rn, outcome) ==
    [rn EXCEPT !.i = @ + 1,
               !.success_count = IF outcome = "success" THEN @ + 1 ELSE @,
               !.failure_count = IF outcome = "failed" THEN @ + 1 ELSE @,
               !.outcomes = Append(@, [lead_id |-> rn.lead_ids[rn.i],
                                       outcome |-> outcome])]

\* The body of the batch loop around enrich_lead_with_ai_agent: success
\* is counted as a success, (False, reason) as a failure, and an
\* exception, caught by `except Exception`, as a failure; outcomes lists
\* what each lead id handed in came to.
Counted(rn, outcome) ==
    [rn EXCEPT !.i = @ + 1,
               !.success_count = IF outcome = "success" THEN @ + 1 ELSE @,
               !.failure_count = IF outcome # "success" THEN @ + 1 ELSE @,
               !.outcomes = Append(@, [lead_id |-> rn.lead_ids[rn.i],
                                       outcome |-> outcome])]

\* enrich_lead_with_ai_agent for the next lead id, inside the try of the
\* batch loop: it returns (False, reason) on every way out but the saved
\* report, or raises what call_ollama_model raised.
AnalyzeLead ==
    /\ run.wf = WorkflowOf(DeepAnalysis) /\ run.i <= Len(run.lead_ids)
    /\ \E navigated \in IF run.session = SessionOk THEN BOOLEAN ELSE {FALSE},
          screenshot_path \in {PyNone, PyText(<<"s.png">>)},
          reply \in ReportReplies, written \in BOOLEAN :
         LET lead_id == run.lead_ids[run.i]
             lead_data == get_lead_by_id(leads, lead_id)
             markdown_report == call_ollama_model(reply, FALSE)
             saved == save_advanced_report(
                         advanced_lead_reports, hist.seq,
                         report_data(lead_id, <<"w">>, screenshot_path),
                         hist.runs)
             started == IF /\ lead_id \in Ids(leads)
                           /\ Truthy(lead_data.website)
                           /\ run.session = SessionOk
                        THEN run.opened + 1 ELSE run.opened
             read == [run EXCEPT !.reads = @ + 1, !.opened = started,
                        !.closed = BrowserExit(FALSE, started, @)]
         IN  IF \/ lead_id \notin Ids(leads)
                \/ ~Truthy(lead_data.website)
                \/ ~navigated
             THEN /\ run' = Counted(read, "failed")
                  /\ UNCHANGED <<advanced_lead_reports, hist>>
             ELSE IF Raises(markdown_report)
             THEN /\ run' = Counted(read, "raised")
                  /\ UNCHANGED <<advanced_lead_reports, hist>>
             ELSE IF \/ ~PyTruthy(markdown_report)
                     \/ ~written
                     \/ ~saved.ret
             THEN /\ run' = Counted(read, "failed")
                  /\ UNCHANGED <<advanced_lead_reports, hist>>
             ELSE /\ run' = Counted(read, "success")
                  /\ advanced_lead_reports' = saved.rows
                  /\ hist' = [hist EXCEPT !.seq = saved.seq]
    /\ UNCHANGED <<leads, smart_lists, pre, last, enriched>>

\* The batch is over; run_enrichment_action formats the two counts.
ReturnAnalysis ==
    /\ run.wf = WorkflowOf(DeepAnalysis) /\ run.i > Len(run.lead_ids)
    /\ last' = [Refused(run.action, run.lead_ids, "")
                  EXCEPT !.op = run.wf,
                         !.ret = <<run.success_count, run.failure_count>>,
                         !.i = run.i,
                         !.result = DispatchResult(run.action, FALSE,
                                       <<run.success_count, run.failure_count>>),
                         !.session = run.session, !.reads = run.reads,
                         !.opened = run.opened, !.closed = run.closed,
                         !.outcomes = run.outcomes]
    /\ run' = NoRun
    /\ UNCHANGED <<leads, smart_lists, pre, hist, derived>>

NextDispatch ==
    \/ RunEnrichmentAction \/ BeginRecord \/ Search \/ Validate
    \/ ExtractContact \/ EndRecord \/ ReturnEnrichment
    \/ AnalyzeLead \/ ReturnAnalysis

SpecDispatch == InitDispatch /\ [][NextDispatch]_vars

IsMessage(x) == x.t = "str"

\* C16: run_enrichment_action always returns a pair of which exactly one
\* of success_message and error_message is not None, whatever the action
\* name, the lead ids and the workflow did, raising included; with no lead
\* ids or an unknown action name it returns an error message and no
\* workflow was invoked.
C16_DispatcherResult ==
    last.op # "init" =>
        /\ Len(last.result) = 2
        /\ IsMessage(last.result[1]) # IsMessage(last.result[2])
        /\ last.raised => IsMessage(last.result[2])
        /\ (\/ last.lead_ids = <<>>
            \/ last.action \notin {DeepAnalysis, SeleniumAction, GoogleAction})
              => /\ IsMessage(last.result[2])
                 /\ last.op = Dispatcher
                 /\ leads = pre /\ advanced_lead_reports = {}
        /\ (last.op # Dispatcher /\ ~last.raised)
              => last.result[1] = Message(SuccessText(last.action), last.ret)

\* A Find & Fill call that raised on its second lead after updating the
\* first, answered with the error message.
C16_Witness ==
    /\ last.op = FillSelenium /\ last.raised /\ last.i = 2
    /\ last.action = SeleniumAction
    /\ leads # pre
    /\ last.result[1] = PyNone

-----------------------------------------------------------------------------
(* Interruption of a workflow (the process is killed) and the call made    *)
(* again afterwards.  Every update_lead_in_db call commits on its own, so  *)
(* the store keeps the writes made before the interruption; the locals of  *)
(* the call are lost.                                                      *)

\* cut: the interrupted calls; link is the URL whose website update was
\* committed when the call was cut before the domain update, NULL for a
\* call cut elsewhere.
NoResumeHist == [runs |-> 0, filled |-> {}, evaluated |-> {}, cut |-> {}]

\* Leads with everything to find, and with a website and some contact
\* fields to find.
ResumeKinds ==
    {Contact(NULL, NULL, NULL, NULL), Contact(UrlB, NULL, <<"m">>, NULL)}

InitResume ==
    /\ leads \in StoresOf(ResumeKinds, MaxEnrichLeads)
    /\ smart_lists = {}
    /\ pre = {}
    /\ last = [op |-> "init"]
    /\ run = NoRun
    /\ hist = NoResumeHist
    /\ enriched = {}
    /\ advanced_lead_reports = {}

\* What is left of a call that was cut.
Cut(link) ==
    /\ last' = [op |-> "interrupted", lead_ids |-> run.lead_ids,
                raised |-> FALSE, ret |-> <<>>, i |-> run.i,
                committed |-> run.committed_leads_count,
                unresolved |-> run.unresolved_leads_count,
                action |-> run.action, result |-> NoResult,
                session |-> run.session, reads |-> run.reads,
                opened |-> run.opened, closed |-> run.closed]
    /\ hist' = [hist EXCEPT
                  !.filled = @ \cup run.filled
                               \cup (IF Truthy(link) THEN {run.lead} ELSE {}),
                  !.cut = @ \cup {[wf |-> run.wf, lead_ids |-> run.lead_ids,
                                   lead |-> run.lead, link |-> link]}]
    /\ run' = NoRun

\* The process is killed between two steps of the loop.
Interrupt ==
    /\ run.wf \in Workflows
    /\ Cut(NULL)
    /\ UNCHANGED <<leads, smart_lists, pre, derived>>

\* The process is killed after the website update of an accepted result
\* and before the domain update.
InterruptInCommit ==
    /\ run.wf \in Workflows /\ run.pc = "validate"
    /\ \E reply \in ValidationReplies :
         LET validation == call_ollama_model(reply, TRUE)
             link == run.search_results[run.r].link
         IN  /\ ~Raises(validation)
             /\ Accepts(run.wf, validation)
             /\ ChecksLink(run.wf) => Truthy(link)
             /\ leads' = update_lead_in_db(leads, run.lead, "website", link).rows
             /\ Cut(link)
    /\ UNCHANGED <<smart_lists, pre, derived>>

\* extracted_info cut down to the first n contact fields.
FirstFields(extracted_info, n) ==
    PyDict([k \in DOMAIN extracted_info.v \cap {ContactFields[j] : j \in 1..n}
              |-> extracted_info.v[k]])

\* The process is killed inside the loop over the contact fields, after
\* the first n of them.
InterruptInFill ==
    /\ run.wf \in Workflows /\ run.pc = "contact"
    /\ LET lead_data == get_lead_by_id(leads, run.lead)
       IN  /\ ~SkipsContact(run.website_url, lead_data)
           /\ \E reply \in ContactReplies, n \in 1..(Len(ContactFields) - 1) :
                LET extracted_info == call_ollama_model(reply, TRUE)
                IN  /\ IsDict(extracted_info)
                    /\ leads' = FillFields(
                                  [rows |-> leads, updated |-> FALSE,
                                   calls |-> <<>>],
                                  run.lead, lead_data,
                                  FirstFields(extracted_info, n), 1).rows
    /\ Cut(NULL)
    /\ UNCHANGED <<smart_lists, pre, derived>>

NextResume ==
    \/ StartEnrichmentAgain \/ BeginRecord \/ Search \/ Validate
    \/ ExtractContact \/ EndRecord \/ ReturnEnrichment
    \/ Interrupt \/ InterruptInCommit \/ InterruptInFill

SpecResume == InitResume /\ [][NextResume]_vars

\* No other lead holds the name of row with domain d: UNIQUE(name, domain)
\* does not stand in the way of writing d.
DomainFree(rows, row, d) ==
    ~IntegrityError(rows, [row EXCEPT !.domain = d])

\* C18: crash-resumable commits: after a call was interrupted, the same
\* workflow called again on the same lead ids and run through them leaves
\* every field the uninterrupted call would have filled; so a lead that
\* holds the website written just before the interruption also holds the
\* domain derived from it, where no other lead stands in the way.
C18_Resumable ==
    (last.op \in Workflows /\ ~last.raised /\ last.i > Len(last.lead_ids)) =>
        \A c \in hist.cut :
            (/\ last.op = c.wf /\ last.lead_ids = c.lead_ids
             /\ Truthy(c.link)
             /\ RowOf(leads, c.lead).website = c.link
             /\ DomainFree(leads, RowOf(leads, c.lead),
                           DomainOfUrl(c.link).domain))
            => RowOf(leads, c.lead).domain = DomainOfUrl(c.link).domain

-----------------------------------------------------------------------------
(* The browser session of a batch.                                         *)

DeepBatch == "enrich_leads_with_ai_agent_batch"
SessionWorkflows == {FillSelenium, FillGoogle, FindSelenium, DeepBatch}

\* C21: a batch workflow that finds the automation tools missing, or the
\* browser driver not startable, returns at once: no lead was read, no
\* record was attempted, no lookup or model call was made and the store is
\* as it was.
C21_SessionUnavailable ==
    (last.op \in SessionWorkflows /\ last.session # SessionOk) =>
        /\ last.reads = 0
        /\ last.i = 1
        /\ ~last.raised
        /\ leads = pre /\ advanced_lead_reports = {}

\* C22: a browser session opened by an enrichment workflow is closed on
\* every way out of the workflow: once the call has returned or raised,
\* every driver it started has been quit; while it runs it holds at most
\* one driver that has not been quit.
C22_SessionReleased ==
    /\ (last.op \in SessionWorkflows \cup {FindGoogle})
          => last.closed = last.opened
    /\ run # NoRun => run.opened - run.closed \in {0, 1}

\* A Find & Fill call that started its driver and raised on a record.
C22_Witness ==
    /\ last.op \in FillWorkflows /\ last.raised
    /\ last.opened = 1 /\ last.closed = 1

-----------------------------------------------------------------------------
(* The courtesy delay of the four enrichment workflows.                    *)

\* C23: in the four enrichment workflows a delay lies between any two
\* consecutive search calls, in one record or across records: a search
\* call is never made while the call before it has not been followed by
\* a time.sleep.
C23_CourtesyDelay ==
    [][(/\ run.wf \in Workflows /\ run'.wf \in Workflows
        /\ run'.searches # run.searches)
          => ~run.undelayed]_vars

-----------------------------------------------------------------------------
(* The API usage log of the paid search.                                   *)

\* C24: every request the workflows send to the paid search g_cse has its
\* entry in the cost log: at any point of a call the log entries written
\* for g_cse are as many as the requests sent.
C24_Metered ==
    run.wf \in Workflows => run.cse_log = run.cse_requests

-----------------------------------------------------------------------------
(* The accounting of the deep analysis batch.                              *)

\* The positions of an outcome list with one of the given outcomes.
Tally(outcomes, which) ==
    Cardinality({k \in 1..Len(outcomes) : outcomes[k].outcome \in which})

\* The lead ids of an outcome list, in its order.
Processed(outcomes) == [k \in 1..Len(outcomes) |-> outcomes[k].lead_id]

\* C25: enrich_leads_with_ai_agent_batch takes the lead ids in the order
\* given, one outcome each, never raises, and returns (success_count,
\* failure_count) that add up to the number of ids, failure_count being
\* the number of leads whose analysis returned a failure or raised.
C25_BatchAccounting ==
    /\ run.wf = DeepBatch =>
          /\ Processed(run.outcomes) = SubSeq(run.lead_ids, 1, run.i - 1)
          /\ run.success_count = Tally(run.outcomes, {"success"})
          /\ run.failure_count = Tally(run.outcomes, {"failed", "raised"})
    /\ last.op = DeepBatch =>
          /\ ~last.raised
          /\ Len(last.ret) = 2
          /\ last.ret[1] + last.ret[2] = Len(last.lead_ids)
          /\ last.session # NoAutomation =>
                /\ Processed(last.outcomes) = last.lead_ids
                /\ last.ret[1] = Tally(last.outcomes, {"success"})
                /\ last.ret[2] = Tally(last.outcomes, {"failed", "raised"})

\* A batch of two that returned (1, 1): one analysis raised, one report
\* was saved.
C25_Witness ==
    /\ last.op = DeepBatch /\ Len(last.lead_ids) = 2
    /\ Tally(last.outcomes, {"raised"}) = 1
    /\ Tally(last.outcomes, {"success"}) = 1
    /\ last.ret = <<1, 1>>

-----------------------------------------------------------------------------
(* Cancellation of a running batch.  The workflows take db_file, lead_ids  *)
(* and config and run in the caller's thread; their loops are plain for    *)
(* loops over lead_ids.  A request to stop is an event of the environment  *)
(* that no statement of a workflow reads.                                  *)

\* The caller asks for the batch to stop while a record is in flight.
RequestCancel ==
    /\ run.wf \in Workflows /\ run.pc # "record"
    /\ run.cancel_at = 0
    /\ run' = [run EXCEPT !.cancel_at = run.i]
    /\ UNCHANGED <<leads, smart_lists, pre, last, hist, derived>>

NextCancel ==
    \/ StartEnrichment \/ BeginRecord \/ Search \/ Validate
    \/ ExtractContact \/ EndRecord \/ ReturnEnrichment
    \/ RequestCancel

SpecCancel == InitResume /\ [][NextCancel]_vars

\* C26: a request to stop made while record k is in flight lets record k
\* finish and is observed at the top of the loop: the loop gets no further
\* than the top of record k + 1, which is never started.
C26_Cancellation ==
    (run.wf \in Workflows /\ run.cancel_at > 0 /\ run.i > run.cancel_at) =>
        /\ run.i = run.cancel_at + 1
        /\ run.pc = "record"

-----------------------------------------------------------------------------
(* The derived tables (enriched, advanced_lead_reports, smart_lists) next  *)
(* to the leads they refer to.  Every function opens its own connection;   *)
(* PRAGMA foreign_keys = ON is executed on the connection of init_db only  *)
(* and holds for that connection, so the FOREIGN KEY ... ON DELETE CASCADE *)
(* clauses are not enforced by the connections that write.                 *)

MaxDerivedOps == 4    \* store operations in one behaviour

\* delete_leads_from_db(db_file, lead_ids): DELETE FROM leads WHERE id IN
\* (...), nothing for an empty list; the other tables are not touched.
delete_leads_from_db(rows, lead_ids) ==
    IF lead_ids = {} THEN [rows |-> rows, ret |-> 0]
    ELSE [rows |-> {r \in rows : r.id \notin lead_ids},
          ret |-> Cardinality({r \in rows : r.id \in lead_ids})]

\* Hits that upsert_leads takes twice over (the name folds differently in
\* Python and in SQLite) and a lead with a domain.
DerivedHits == {Hit(<<"É">>, NULL), Hit(<<"A">>, <<"d">>)}
EnrichedData ==
    {PyDict([k \in {"psi"} |-> PyInt(0)]),
     PyDict([k \in {"psi", "public_emails"} |->
               IF k = "psi" THEN PyInt(90) ELSE PyText(<<"e">>)])}
DerivedReportFields ==
    {<<>>, [k \in {"critical_missing_info"} |-> PyText(<<"x">>)]}
DerivedLists == {<<"L">>, <<"M">>}
Categories == {<<"c">>, <<"d">>}

\* The three derived tables, as a call found them.
Tables == [enriched |-> enriched, advanced_lead_reports |-> advanced_lead_reports,
           smart_lists |-> smart_lists, leads |-> leads]

NoDerivedHist == [ops |-> 0, seq |-> 0]

InitDerived ==
    /\ leads = {}
    /\ smart_lists = {}
    /\ enriched = {}
    /\ advanced_lead_reports = {}
    /\ pre = Tables
    /\ last = [op |-> "init", lead_id |-> 0, list_name |-> NULL]
    /\ run = NoRun
    /\ hist = NoDerivedHist

\* What every operation of the store does besides its own table.
Operation(op, lead_id, list_name) ==
    /\ hist.ops < MaxDerivedOps
    /\ pre' = Tables
    /\ last' = [op |-> op, lead_id |-> lead_id, list_name |-> list_name]
    /\ UNCHANGED run

UpsertLead ==
    /\ \E h \in DerivedHits : leads' = upsert_leads(leads, <<h>>).rows
    /\ Operation("upsert_leads", 0, NULL)
    /\ hist' = [hist EXCEPT !.ops = @ + 1]
    /\ UNCHANGED <<smart_lists, derived>>

\* run_basic_enrichment saving what it found for a lead unenriched gave it.
SaveEnriched ==
    /\ \E lead_id \in Ids(leads), data \in EnrichedData :
         /\ enriched' = save_enriched(enriched, lead_id, data)
         /\ Operation("save_enriched", lead_id, NULL)
    /\ hist' = [hist EXCEPT !.ops = @ + 1]
    /\ UNCHANGED <<leads, smart_lists, advanced_lead_reports>>

\* enrich_lead_with_ai_agent saving the report of a lead it has read.
SaveLeadReport ==
    /\ \E lead_id \in Ids(leads), fields \in DerivedReportFields :
         LET res == save_advanced_report(advanced_lead_reports, hist.seq,
                       ReportDict(PyInt(lead_id), fields), hist.ops + 1)
         IN  /\ advanced_lead_reports' = res.rows
             /\ hist' = [ops |-> hist.ops + 1, seq |-> res.seq]
             /\ Operation("save_advanced_report", lead_id, NULL)
    /\ UNCHANGED <<leads, smart_lists, enriched>>

\* build_smart_list recording a lead of the pool that matched.
AddLeadToSmartList ==
    /\ \E lead_id \in Ids(leads), list_name \in DerivedLists,
          ai_category \in Categories :
         /\ smart_lists' = add_lead_to_smart_list(smart_lists, list_name,
                               lead_id, ai_category, <<"j">>)
         /\ Operation("add_lead_to_smart_list", lead_id, list_name)
    /\ hist' = [hist EXCEPT !.ops = @ + 1]
    /\ UNCHANGED <<leads, derived>>

DeleteLeads ==
    /\ \E lead_ids \in SUBSET Ids(leads) :
         leads' = delete_leads_from_db(leads, lead_ids).rows
    /\ Operation("delete_leads_from_db", 0, NULL)
    /\ hist' = [hist EXCEPT !.ops = @ + 1]
    /\ UNCHANGED <<smart_lists, derived>>

SweepDuplicates ==
    /\ leads' = remove_db_duplicates(leads).rows
    /\ Operation("remove_db_duplicates", 0, NULL)
    /\ hist' = [hist EXCEPT !.ops = @ + 1]
    /\ UNCHANGED <<smart_lists, derived>>

NextDerived ==
    \/ UpsertLead \/ SaveEnriched \/ SaveLeadReport \/ AddLeadToSmartList
    \/ DeleteLeads \/ SweepDuplicates

SpecDerived == InitDerived /\ [][NextDerived]_vars

\* No two rows of the set agree on all of the given columns.
UniqueOn(rows, columns) ==
    \A x, y \in rows : (\A c \in columns : x[c] = y[c]) => x = y

\* C27: in every state there is at most one enriched row per lead_id, one
\* advanced report per lead_id and one smart-list membership per
\* (list_name, lead_id); save_enriched or add_lead_to_smart_list on a key
\* that is there changes nothing, the first row's values stay.
C27_UniqueDerived ==
    /\ UniqueOn(enriched, {"lead_id"})
    /\ UniqueOn(advanced_lead_reports, {"lead_id"})
    /\ UniqueOn(smart_lists, {"list_name", "lead_id"})
    /\ (/\ last.op = "save_enriched"
        /\ \E e \in pre.enriched : e.lead_id = last.lead_id)
          => enriched = pre.enriched
    /\ (/\ last.op = "add_lead_to_smart_list"
        /\ \E x \in pre.smart_lists : /\ x.lead_id = last.lead_id
                                       /\ x.list_name = last.list_name)
          => smart_lists = pre.smart_lists

\* save_enriched called for a lead that has a row, and the row it keeps.
C27_Witness ==
    /\ last.op = "save_enriched"
    /\ \E e \in pre.enriched : e.lead_id = last.lead_id /\ e.psi = PyInt(90)
    /\ \E x \in smart_lists : x.lead_id = last.lead_id

\* The lead ids the rows of a derived table refer to.
Referred(rows) == {x.lead_id : x \in rows}

\* C29: in every state reached by upsert_leads, save_enriched,
\* save_advanced_report, add_lead_to_smart_list, delete_leads_from_db and
\* remove_db_duplicates, every enriched row, advanced report and smart-list
\* membership refers to a lead that exists, so that a lead inserted later
\* inherits nothing from a deleted one.
C29_ReferentialIntegrity ==
    /\ Referred(enriched) \subseteq Ids(leads)
    /\ Referred(advanced_lead_reports) \subseteq Ids(leads)
    /\ Referred(smart_lists) \subseteq Ids(leads)

-----------------------------------------------------------------------------
(* Claim about what build_smart_list records and counts.                   *)

\* The answer is an object whose 'match' is the boolean true.
Matched(a) ==
    /\ IsDict(a)
    /\ "match" \in DOMAIN a.v
    /\ a.v["match"].t = "bool"
    /\ a.v["match"].v

\* The answer is no object, or an object without 'match'.
Invalid(a) == ~IsDict(a) \/ "match" \notin DOMAIN a.v

MatchedAt(answers) == {k \in 1..Len(answers) : Matched(answers[k])}
InvalidAt(answers) == {k \in 1..Len(answers) : Invalid(answers[k])}

\* C28: build_smart_list adds a lead to the list exactly when the model's
\* answer for it is an object whose 'match' is true; match false counts
\* neither way, an answer that is no object or has no 'match' counts as a
\* failure and adds nothing; the success count returned is the number of
\* leads whose answer matched; no build makes more than
\* max_leads_to_analyze model calls.
C28_PositiveMatchOnly ==
    /\ run.wf = "build_smart_list" =>
          LET added == smart_lists \ run.start_lists
              matched == {run.lead_ids[k] : k \in MatchedAt(run.answers)}
          IN  /\ Len(run.answers) = run.i - 1
              /\ Len(run.answers) <= run.max_leads_to_analyze
              /\ run.success_count = Cardinality(MatchedAt(run.answers))
              /\ run.failure_count = Cardinality(InvalidAt(run.answers))
              /\ {x.lead_id : x \in added} = matched
              /\ \A x \in added : x.list_name = run.list_name
              /\ run.start_lists \subseteq smart_lists
    /\ (last.op = "build_smart_list" /\ last.raised # "ValueError") =>
          /\ Len(last.answers) <= last.max_leads_to_analyze
          /\ last.raised = "" =>
                last.ret = <<Cardinality(MatchedAt(last.answers)),
                             Cardinality(InvalidAt(last.answers))>>

\* A build that returned after one answer with match true and one with a
\* 'match' that is not true.
C28_Witness ==
    /\ last.op = "build_smart_list"
    /\ last.raised = ""
    /\ Len(last.answers) = 2
    /\ last.ret = <<1, 0>>
    /\ \E x \in smart_lists : x.list_name = last.list_name
    /\ run = NoRun

-----------------------------------------------------------------------------
(* The workflows on a store whose leads have derived records.              *)

\* Derived records of the leads of a store: an enriched row and a
\* membership in list L for each, a report for the first.
SeededEnriched(rows) ==
    {[id |-> r.id, lead_id |-> r.id, psi |-> PyInt(90),
      public_emails |-> PyNone, pattern |-> PyNone] : r \in rows}
SeededMemberships(rows) ==
    {[list_name |-> <<"L">>, lead_id |-> r.id, ai_category |-> <<"c">>,
      ai_justification |-> <<"j">>] : r \in rows}
SeededReports(rows) ==
    IF rows = {} THEN {}
    ELSE save_advanced_report({}, 0,
             ReportDict(PyInt(MinOf(Ids(rows))), <<>>), 1).rows

InitFrame ==
    /\ leads \in StoresOf(EnrichKinds, MaxEnrichLeads)
    /\ smart_lists = SeededMemberships(leads)
    /\ pre = {}
    /\ last = [op |-> "init"]
    /\ run = NoRun
    /\ hist = NoHist
    /\ enriched = SeededEnriched(leads)
    /\ advanced_lead_reports = SeededReports(leads)

SpecFrame == InitFrame /\ [][NextEnrich]_vars

\* The fields of a lead the workflows may write.
FrameFields == {"website", "domain", "phone", "email", "address"}

\* The lead ids handed to the call in progress, or to the call that
\* returned.
ListedIds ==
    IF run.wf \in Workflows THEN {run.lead_ids[k] : k \in 1..Len(run.lead_ids)}
    ELSE {last.lead_ids[k] : k \in 1..Len(last.lead_ids)}

\* C30: during and after a call of one of the four workflows the store
\* holds the leads it held at the call; a lead whose id was not handed to
\* the call is as it was; a lead whose id was handed differs at most in
\* website, domain, phone, email and address; the enriched rows, reports
\* and smart-list memberships are as they were; for an id that matches no
\* lead no search, validation, page visit or update is made.
C30_Frame ==
    (run.wf \in Workflows \/ last.op \in Workflows) =>
        /\ Ids(leads) = Ids(pre)
        /\ Cardinality(leads) = Cardinality(pre)
        /\ \A r \in leads :
              /\ r.id \notin ListedIds => r \in pre
              /\ \A c \in LeadColumns \ FrameFields : r[c] = RowOf(pre, r.id)[c]
        /\ enriched = SeededEnriched(pre)
        /\ advanced_lead_reports = SeededReports(pre)
        /\ smart_lists = SeededMemberships(pre)
        /\ run.wf \in Workflows =>
              \A id \in DOMAIN run.searches :
                 id \notin Ids(pre) =>
                    /\ run.searches[id] = 0
                    /\ run.validations[id] = 0
                    /\ run.lead = id =>
                          /\ run.calls = <<>>
                          /\ run.trail = <<>>
                          /\ run.contact = {}
                          /\ run.pc = "record"

\* A call that was handed an id matching no lead and the id of a lead,
\* wrote that lead's website and returned, another lead being in the
\* store.
C30_Witness ==
    /\ run = NoRun
    /\ last.op \in Workflows
    /\ ~last.raised
    /\ ListedIds \ Ids(pre) # {}
    /\ Ids(pre) \ ListedIds # {}
    /\ leads # pre
    /\ enriched # {}

=============================================================================
